---- MODULE Spec2Model ----
(***************************************************************************)
(* Datavision Easy Store: shard leases, the multi-shard packer, source     *)
(* claiming and the crash-recovery sweeps.                                 *)
(*                                                                         *)
(* Time is one global clock `now` (the hosts' clocks are taken to agree).  *)
(* Every database statement is one atomic step; a handler that awaits      *)
(* between statements is a sequence of steps.                              *)
(***************************************************************************)
EXTENDS Integers, Sequences, FiniteSets, TLC

VARIABLES
    now,        \* wall clock, seconds
    today,      \* date.today()
    locks,      \* table des_shard_locks: a set of rows
    containers, \* table des_containers: a sequence of rows, id = position
    store,      \* archive bucket: key -> object or NoObject
    source,     \* source table: id -> row
    grant,      \* history: grant[h][s] = expires_at of the lease h last obtained on s, 0 if none
    lastCall,   \* history: the last lock call and what it returned
    pc,         \* packer process: where it stands in run_forever / _process_shard
    writers,    \* MultiShardPacker._writers
    hb,         \* MultiShardPacker._heartbeats: time of the task's next renew, NoHeartbeat if none
    ptoday,     \* _process_shard's local `today`
    batch,      \* _process_shard's local `files`
    attempt,    \* async_retry's `attempt` around _upload_to_s3
    lost,       \* history: lost[p][s], a renew of p for s failed since p last acquired s
    strayWrite, \* history: kinds of shard modification made while another packer held the lease
    lostWrite,  \* history: kinds of shard modification made after a failed renew
    finalized,  \* history: what _finalize_writer calls that returned had written
    putOk,      \* history: container ids whose upload succeeded
    uploadFailed, \* history: container ids whose upload raised
    heldAtStop, \* history: container ids a stopped packer was writing under a lease it still held
    rowlock,    \* source table: the row locks transactions hold, row id -> caller or NoCaller
    txn,        \* claim_pending_files: a caller's open transaction, NoTxn if none
    claimCount, \* history: how many claim_pending_files calls returned the row
    lastReturn, \* history: what the last claim_pending_files call that committed returned
    sess,       \* recovery: the ORM session of a sweep that is under way
    init0,      \* history: the tables and the bucket as the recovery run found them
    lastSweep,  \* history: the last sweep that returned, and what it did
    des,        \* container codec: one DesWriter, the file it wrote, one DesReader on it
    sha,        \* SHA-256: the leading bytes of the digest of each string that is hashed
    sh,         \* shard ids: what the marker, the packer and the retriever computed for one file
    gen,        \* name generators: configuration, (last_ms, seq), and the names they emitted
    mk,         \* marker: the catalog table, the dead-letter table, the batch under way
    rt,         \* router: the routing table, its clock, and the last request routed
    lru,        \* index cache: one InMemoryIndexCache, its clock, and the last call on it
    beat,       \* heartbeats: the configured lock ttl and the renews that failed
    run,        \* one packer process: run_forever's position, its writers, its work directory
    retry       \* async_retry: one call of a wrapped function, attempt by attempt

dbVars == <<locks, containers, store, source>>
clientVars == <<grant, lastCall>>
packerVars == <<pc, writers, hb, ptoday, batch, attempt>>
packerHist == <<lost, strayWrite, lostWrite, finalized, putOk, uploadFailed, heldAtStop>>

claimVars == <<rowlock, txn, claimCount, lastReturn>>
sweepVars == <<sess, init0, lastSweep>>

\* the state of the components that take no part in locking, packing and recovery
laterVars == <<des, sha, sh, gen, mk, rt, lru, beat, run, retry>>

\* what the codec, the shard computations, the name generators, the marker, the
\* router, the index cache, the heartbeat tasks, the packer loop and the retry
\* wrapper leave alone
codecRest == <<sha, sh, gen, mk, rt, lru, beat, run, retry>>
shardRest == <<des, gen, mk, rt, lru, beat, run, retry>>
namesRest == <<des, sha, sh, mk, rt, lru, beat, run, retry>>
markerRest == <<des, sha, sh, gen, rt, lru, beat, run, retry>>
routerRest == <<des, sh, gen, mk, lru, beat, run, retry>>
cacheRest == <<des, sha, sh, gen, mk, rt, beat, run, retry>>
beatRest == <<des, sha, sh, gen, mk, rt, lru, run, retry>>
runRest == <<des, sha, sh, gen, mk, rt, lru, beat, retry>>
retryRest == <<des, sha, sh, gen, mk, rt, lru, beat, run>>

\* the state of locking, packing, claiming and recovery
coreVars == <<now, today, dbVars, clientVars, packerVars, packerHist, claimVars, sweepVars>>

vars == <<now, today, dbVars, clientVars, packerVars, packerHist, claimVars, sweepVars, laterVars>>

----------------------------------------------------------------------------
(* Bounds *)

MaxTime == 3
MaxLag == 1
MaxTtl == 2

MaxDay == 2
NumFiles == 1
LockTtl == 2
BatchSize == 1
CheckpointEveryFiles == 2
CheckpointEverySeconds == 2
UploadMaxAttempts == 5
MaxContainers == 2

MaxRecRows == 1
NumRows == 3
NumCallers == 2
MaxLimit == 2

Holders == {"A", "B"}
Shards == {0, 1}
Packers == Holders
PackerShards == {0}
Files == 1 .. NumFiles
Days == 0 .. MaxDay
Ttls == 1 .. MaxTtl
Rows == 1 .. NumRows
Callers == 1 .. NumCallers
Limits == 1 .. MaxLimit
NoCall == [op |-> "none", holder |-> "none", shard |-> 0, ok |-> FALSE, pre |-> "none"]

(* A clock reading taken before the statement runs: datetime.now() is      *)
(* evaluated by the client, the statement is executed afterwards.          *)
ClockReadings == {t \in 0 .. now : now - t <= MaxLag}

----------------------------------------------------------------------------
(* des_shard_locks: DesDbConnector. A row keeps shard_id, holder_id and     *)
(* expires_at; acquired_at, heartbeat_at and state are written by the same *)
(* statements and read by none.                                            *)

ShardLock(s, h, t, ttl) ==
    [shard_id |-> s, holder_id |-> h, expires_at |-> t + ttl]

Conflicting(tbl, s) == {r \in tbl : r.shard_id = s}

\* a row is effective iff expires_at > now
Effective(r, t) == r.expires_at > t

\* mutant: the conflict-update clause without its guard
AcquireWhere_Unguarded(r, h, t) == TRUE

\* on_conflict_do_update(where = expires_at < now OR holder_id = holder)
AcquireWhere(r, h, t) == (r.expires_at < t) \/ (r.holder_id = h)

\* INSERT ... ON CONFLICT (shard_id) DO UPDATE ... RETURNING shard_id
TryAcquireRows(tbl, s, h, t, ttl) ==
    IF Conflicting(tbl, s) = {}
    THEN tbl \cup {ShardLock(s, h, t, ttl)}
    ELSE {IF r.shard_id = s /\ AcquireWhere(r, h, t) THEN ShardLock(s, h, t, ttl) ELSE r : r \in tbl}

\* result.scalar_one_or_none() is not None
TryAcquireOk(tbl, s, h, t) ==
    \/ Conflicting(tbl, s) = {}
    \/ \E r \in Conflicting(tbl, s) : AcquireWhere(r, h, t)

\* mutant: renew that forgets the expiry test
RenewWhere_NoExpiry(r, s, h, t) == r.shard_id = s /\ r.holder_id = h

\* UPDATE ... WHERE shard_id = ? AND holder_id = ? AND expires_at > now
RenewWhere(r, s, h, t) == r.shard_id = s /\ r.holder_id = h /\ r.expires_at > t

RenewRows(tbl, s, h, t, ttl) ==
    {IF RenewWhere(r, s, h, t)
     THEN [r EXCEPT !.expires_at = t + ttl]
     ELSE r : r \in tbl}

RenewOk(tbl, s, h, t) == \E r \in tbl : RenewWhere(r, s, h, t)

\* mutant: the delete is scoped to the shard only
ReleaseRows_AnyHolder(tbl, s, h) == {r \in tbl : r.shard_id # s}

\* DELETE ... WHERE shard_id = ? AND holder_id = ?
ReleaseRows(tbl, s, h) == {r \in tbl : ~(r.shard_id = s /\ r.holder_id = h)}

\* mutant: a row that expires at this very moment is deleted too
ExpiredLockRows_Inclusive(tbl, t) == {r \in tbl : r.expires_at <= t}

\* DELETE FROM des_shard_locks WHERE expires_at < now
ExpiredLockRows(tbl, t) == {r \in tbl : r.expires_at < t}

(* What the caller found in the table, judged against its own clock        *)
(* reading t; kept in lastCall only.                                       *)
PreState(tbl, s, h, t) ==
    IF Conflicting(tbl, s) = {} THEN "no_row"
    ELSE LET r == CHOOSE x \in Conflicting(tbl, s) : TRUE IN
         IF r.holder_id = h
         THEN (IF r.expires_at > t THEN "own_live" ELSE "own_expired")
         ELSE (IF r.expires_at < t THEN "other_expired"
               ELSE IF r.expires_at = t THEN "other_edge" ELSE "other_live")

----------------------------------------------------------------------------
(* Tables and objects the packer works on *)

NoTime == -1
NoObject == [valid |-> FALSE, file_count |-> 0, files |-> {}, present |-> FALSE]
NoWriter == [day |-> -1, container_id |-> 0, file_count |-> 0, files |-> {},
             closed |-> FALSE, last_checkpoint |-> NoTime]
NoHeartbeat == -1

\* _dest_key: "<day>/shard_<shard>.des" under dest_prefix
DestKey(s, day) == <<day, s>>

Keys == {DestKey(s, d) : s \in Shards, d \in Days}

\* the shard a source row hashes to (_compute_shard_id: consistent_hash of its s3_key)
FileShard(f) == (f + 1) % 2

SourceRow(f, st, by, at) ==
    [id |-> f, shard |-> FileShard(f), status |-> st, claimed_by |-> by, claimed_at |-> at]

\* DesContainer row; data_bytes follows file_count and is left out
ContainerRow(s, day, st, n, t) ==
    [shard_id |-> s, day |-> day, status |-> st, s3_key |-> DestKey(s, day),
     file_count |-> n, created_at |-> t, finalized_at |-> NoTime]

\* _update_container_record: UPDATE ... WHERE id = container_id
UpdateContainerRecord(tbl, cid, st, n, fin) ==
    [tbl EXCEPT ![cid] = [@ EXCEPT !.status = st, !.file_count = n, !.finalized_at = fin]]

\* a closed DES container as the object store holds it after upload
ContainerObject(w) ==
    [valid |-> TRUE, file_count |-> w.file_count, files |-> w.files, present |-> TRUE]

HoldsLease(tbl, s, h, t) ==
    \E r \in tbl : r.shard_id = s /\ r.holder_id = h /\ Effective(r, t)

\* HeartbeatManager._run: interval = max(1, ttl // 2)
HeartbeatInterval(ttl) == IF ttl \div 2 >= 1 THEN ttl \div 2 ELSE 1

----------------------------------------------------------------------------
(* SourceDatabaseConnector.claim_pending_files: SELECT status = pending    *)
(* LIMIT limit FOR UPDATE SKIP LOCKED (no ORDER BY: any `limit` pending    *)
(* rows), keep the rows of the shard, UPDATE them, in one transaction.     *)

Min(a, b) == IF a <= b THEN a ELSE b

\* the sets of rows the SELECT ... LIMIT may return
Selections(src, avail, limit) ==
    {S \in SUBSET avail : Cardinality(S) = Min(limit, Cardinality(avail))}

PendingIds(src) == {f \in DOMAIN src : src[f].status = "pending"}

\* if source_file.shard_id == shard_id
OfShard(src, S, s) == {f \in S : src[f].shard = s}

\* UPDATE ... SET status = claimed, claimed_by, claimed_at WHERE id IN claimed_ids
MarkClaimed(src, ids, h, t) ==
    [f \in DOMAIN src |->
        IF f \in ids
        THEN [src[f] EXCEPT !.status = "claimed", !.claimed_by = h, !.claimed_at = t]
        ELSE src[f]]

\* mark_files_failed
MarkFailed(src, ids) ==
    [f \in DOMAIN src |-> IF f \in ids THEN [src[f] EXCEPT !.status = "failed"] ELSE src[f]]

NoCaller == 0
NoTxn == [shard |-> 0, holder |-> "none", rows |-> {}, open |-> FALSE]
NoReturn == [caller |-> NoCaller, holder |-> "none", shard |-> 0, files |-> {}, found |-> {}]

\* mutant: the SELECT without FOR UPDATE SKIP LOCKED sees every row
Unlocked_NoSkip(rl, src) == DOMAIN src

\* FOR UPDATE SKIP LOCKED: the rows no open transaction has locked
Unlocked(rl, src) == {f \in DOMAIN src : rl[f] = NoCaller}

ClaimIdle ==
    /\ rowlock = [f \in DOMAIN source |-> NoCaller]
    /\ txn = [c \in Callers |-> NoTxn]
    /\ claimCount = [f \in DOMAIN source |-> 0]
    /\ lastReturn = NoReturn


----------------------------------------------------------------------------
(* MultiShardPacker: one process per holder id, shard_ids = PackerShards *)

----------------------------------------------------------------------------
(* CrashRecoveryManager: the four sweeps as functions of the tables, the   *)
(* bucket and the clock reading t. s3_client and s3_bucket are configured, *)
(* s3_prefix is not, cleanup_orphaned_s3 is on.                            *)

ClaimTimeoutSeconds == 1
ContainerGraceSeconds == 1

NoCount == -1
InvalidObject == [valid |-> FALSE, file_count |-> 0, files |-> {}, present |-> TRUE]

\* mutant: a claim without a claimed_at is never stale
StaleClaim_NotNull(r, t) ==
    r.status = "claimed" /\ r.claimed_at # NoTime /\ r.claimed_at < t - ClaimTimeoutSeconds

\* WHERE status = claimed AND (claimed_at IS NULL OR claimed_at < cutoff)
StaleClaim(r, t) ==
    r.status = "claimed" /\ (r.claimed_at = NoTime \/ r.claimed_at < t - ClaimTimeoutSeconds)

\* recover_stale_claims: UPDATE ... SET status = pending, claimed_by = NULL, claimed_at = NULL
RecoverStaleClaims(src, t) ==
    [f \in DOMAIN src |->
        IF StaleClaim(src[f], t)
        THEN [src[f] EXCEPT !.status = "pending", !.claimed_by = "none", !.claimed_at = NoTime]
        ELSE src[f]]

\* result.rowcount
StaleClaimCount(src, t) == Cardinality({f \in DOMAIN src : StaleClaim(src[f], t)})

\* _s3_exists: head_object succeeds
S3Exists(st, k) == st[k].present

\* _validate_container: (is_valid, file_count_if_known)
ValidateContainer(st, k) ==
    IF st[k].present /\ st[k].valid
    THEN [valid |-> TRUE, file_count |-> st[k].file_count]
    ELSE [valid |-> FALSE, file_count |-> NoCount]

\* _delete_s3_object
DeleteS3Object(st, k) == [st EXCEPT ![k] = NoObject]

\* cleanup_partial_containers: WHERE status = writing AND created_at < cutoff
PartialSelected(row, t) ==
    row.status = "writing" /\ row.created_at < t - ContainerGraceSeconds

PartialIds(ctbl, t) == {i \in 1 .. Len(ctbl) : PartialSelected(ctbl[i], t)}

\* cleanup_partial_containers: the loop body for one container
PartialContainer(row, st, t) ==
    IF ~S3Exists(st, row.s3_key)
    THEN [row |-> [row EXCEPT !.status = "failed", !.finalized_at = t],
          store |-> st, actions |-> 1]
    ELSE LET v == ValidateContainer(st, row.s3_key) IN
         IF ~v.valid
         THEN [row |-> [row EXCEPT !.status = "failed", !.finalized_at = t],
               store |-> DeleteS3Object(st, row.s3_key), actions |-> 1]
         ELSE [row |-> [row EXCEPT !.status = "uploaded", !.finalized_at = t,
                                   !.file_count = IF v.file_count # NoCount
                                                  THEN v.file_count ELSE @],
               store |-> st, actions |-> 1]

\* verify_container_integrity: the loop body for one container
IntegrityContainer(row, st, t) ==
    IF ~S3Exists(st, row.s3_key)
    THEN [row |-> [row EXCEPT !.status = "failed", !.finalized_at = t],
          store |-> st, actions |-> 1]
    ELSE LET v == ValidateContainer(st, row.s3_key) IN
         IF ~v.valid
         THEN [row |-> [row EXCEPT !.status = "failed", !.finalized_at = t],
               store |-> DeleteS3Object(st, row.s3_key), actions |-> 1]
         ELSE IF v.file_count # NoCount /\ v.file_count # row.file_count
         THEN [row |-> [row EXCEPT !.file_count = v.file_count], store |-> st, actions |-> 1]
         ELSE [row |-> row, store |-> st, actions |-> 0]

\* mutant: only the keys of uploaded containers count as known
DbKeys_UploadedOnly(ctbl) ==
    {ctbl[i].s3_key : i \in {j \in 1 .. Len(ctbl) : ctbl[j].status = "uploaded"}}

\* verify_container_integrity: db_keys
DbKeys(ctbl) == {ctbl[i].s3_key : i \in 1 .. Len(ctbl)}

\* _find_orphaned_s3: the listed keys that are not in known_keys
FindOrphanedS3(st, known) == {k \in DOMAIN st : st[k].present /\ k \notin known}

RemoveObjects(st, ks) == [k \in DOMAIN st |-> IF k \in ks THEN NoObject ELSE st[k]]

RECURSIVE CleanupFrom(_, _, _, _, _)
CleanupFrom(ctbl, st, t, i, sel) ==
    IF i > Len(ctbl) THEN [containers |-> ctbl, store |-> st, actions |-> 0]
    ELSE IF i \notin sel THEN CleanupFrom(ctbl, st, t, i + 1, sel)
    ELSE LET r == PartialContainer(ctbl[i], st, t)
             rest == CleanupFrom([ctbl EXCEPT ![i] = r.row], r.store, t, i + 1, sel)
         IN  [rest EXCEPT !.actions = @ + r.actions]

\* cleanup_partial_containers as a whole: the tables after commit, and the count returned
CleanupPartialContainers(ctbl, st, t) == CleanupFrom(ctbl, st, t, 1, PartialIds(ctbl, t))

RECURSIVE VerifyFrom(_, _, _, _)
VerifyFrom(ctbl, st, t, i) ==
    IF i > Len(ctbl) THEN [containers |-> ctbl, store |-> st, actions |-> 0]
    ELSE LET r == IntegrityContainer(ctbl[i], st, t)
             rest == VerifyFrom([ctbl EXCEPT ![i] = r.row], r.store, t, i + 1)
         IN  [rest EXCEPT !.actions = @ + r.actions]

\* verify_container_integrity as a whole: the loop, the commit, the orphan deletion
VerifyContainerIntegrity(ctbl, st, t) ==
    LET r == VerifyFrom(ctbl, st, t, 1)
        orphaned == FindOrphanedS3(r.store, DbKeys(ctbl))
    IN  [containers |-> r.containers, store |-> RemoveObjects(r.store, orphaned),
         actions |-> r.actions + Cardinality(orphaned)]

Sweeps == {"stale", "partial", "locks", "integrity"}
NoSweep == [name |-> "none", actions |-> 0, changed |-> FALSE, repeat |-> FALSE]
NoSession == [pc |-> "start", locked |-> {}]

SweepIdle ==
    /\ sess = [w \in Sweeps |-> NoSession]
    /\ init0 = << >>
    /\ lastSweep = NoSweep

PackerInit ==
    /\ pc = [p \in Packers |-> "idle"]
    /\ writers = [p \in Packers |-> [s \in PackerShards |-> NoWriter]]
    /\ hb = [p \in Packers |-> [s \in PackerShards |-> NoHeartbeat]]
    /\ ptoday = [p \in Packers |-> 0]
    /\ batch = [p \in Packers |-> {}]
    /\ attempt = [p \in Packers |-> 1]
    /\ lost = [p \in Packers |-> [s \in PackerShards |-> FALSE]]
    /\ strayWrite = {}
    /\ lostWrite = {}
    /\ finalized = {}
    /\ putOk = {}
    /\ uploadFailed = {}
    /\ heldAtStop = [p \in Packers |-> {}]


----------------------------------------------------------------------------
(* Lock clients: any holder may call any operation at any time *)

ClientInit ==
    /\ grant = [h \in Holders |-> [s \in Shards |-> 0]]
    /\ lastCall = NoCall

\* no codec, generator, marker or router is in use
NoDes == [pc |-> "none"]

HashInputs == {<<"x">>, <<"y">>, <<"d", "x">>}

NoSha == [s \in HashInputs |-> <<0, 0>>]

NoShards == [pc |-> "none"]

NoGens == [pc |-> "none"]

NoMarker == [pc |-> "none"]

NoRouter == [pc |-> "none"]

NoCache == [pc |-> "none"]

NoBeat == [pc |-> "none"]

NoRun == [state |-> "none"]

NoRetry == [pc |-> "none"]

\* every component but those named is out of use
IdleBut(used) ==
    /\ IF "des" \in used THEN TRUE ELSE des = NoDes
    /\ IF "sha" \in used THEN TRUE ELSE sha = NoSha
    /\ IF "sh" \in used THEN TRUE ELSE sh = NoShards
    /\ IF "gen" \in used THEN TRUE ELSE gen = NoGens
    /\ IF "mk" \in used THEN TRUE ELSE mk = NoMarker
    /\ IF "rt" \in used THEN TRUE ELSE rt = NoRouter
    /\ IF "lru" \in used THEN TRUE ELSE lru = NoCache
    /\ IF "beat" \in used THEN TRUE ELSE beat = NoBeat
    /\ IF "run" \in used THEN TRUE ELSE run = NoRun
    /\ IF "retry" \in used THEN TRUE ELSE retry = NoRetry

LaterIdle == IdleBut({})

\* nothing of the packing pipeline has run
CoreIdle ==
    /\ now = 0
    /\ today = 0
    /\ locks = {}
    /\ containers = << >>
    /\ store = [k \in Keys |-> NoObject]
    /\ source = [f \in Files |-> SourceRow(f, "pending", "none", NoTime)]
    /\ ClientInit
    /\ PackerInit
    /\ ClaimIdle
    /\ SweepIdle

LockInit == CoreIdle /\ LaterIdle

TryAcquire(h, s, ttl) ==
    \E t \in ClockReadings :
        LET ok == TryAcquireOk(locks, s, h, t) IN
        /\ locks' = TryAcquireRows(locks, s, h, t, ttl)
        /\ grant' = [grant EXCEPT ![h][s] = IF ok THEN t + ttl ELSE 0]
        /\ lastCall' = [op |-> "try_acquire", holder |-> h, shard |-> s, ok |-> ok,
                        pre |-> PreState(locks, s, h, t)]
        /\ UNCHANGED <<claimVars, sweepVars, laterVars, now, today, containers, store, source,
                       packerVars, packerHist>>

Renew(h, s, ttl) ==
    \E t \in ClockReadings :
        LET ok == RenewOk(locks, s, h, t) IN
        /\ locks' = RenewRows(locks, s, h, t, ttl)
        /\ grant' = [grant EXCEPT ![h][s] = IF ok THEN t + ttl ELSE 0]
        /\ lastCall' = [op |-> "renew", holder |-> h, shard |-> s, ok |-> ok,
                        pre |-> PreState(locks, s, h, t)]
        /\ UNCHANGED <<claimVars, sweepVars, laterVars, now, today, containers, store, source,
                       packerVars, packerHist>>

Release(h, s) ==
    /\ locks' = ReleaseRows(locks, s, h)
    /\ grant' = [grant EXCEPT ![h][s] = 0]
    /\ lastCall' = [op |-> "release", holder |-> h, shard |-> s, ok |-> TRUE,
                    pre |-> PreState(locks, s, h, now)]
    /\ UNCHANGED <<laterVars, claimVars, sweepVars, now, today, containers, store, source, packerVars, packerHist>>

ReleaseExpiredLocks ==
    /\ locks' = locks \ ExpiredLockRows(locks, now)
    /\ lastCall' = [op |-> "sweep", holder |-> "none", shard |-> 0,
                    ok |-> ExpiredLockRows(locks, now) # {}, pre |-> "none"]
    /\ UNCHANGED <<laterVars, claimVars, sweepVars, now, today, grant, containers, store, source, packerVars, packerHist>>

Tick ==
    /\ now < MaxTime
    /\ now' = now + 1
    /\ UNCHANGED <<laterVars, claimVars, sweepVars, today, dbVars, clientVars, packerVars, packerHist>>

LockNext ==
    \/ \E h \in Holders, s \in Shards, ttl \in Ttls : TryAcquire(h, s, ttl)
    \/ \E h \in Holders, s \in Shards, ttl \in Ttls : Renew(h, s, ttl)
    \/ \E h \in Holders, s \in Shards : Release(h, s)
    \/ ReleaseExpiredLocks
    \/ Tick

SpecLock == LockInit /\ [][LockNext]_vars

----------------------------------------------------------------------------
(* MultiShardPacker: the steps *)

(* history: a modification of shard s by p, judged at the moment it is     *)
(* made: recorded when another packer holds the shard's effective lease.   *)
Stray(p, s, kind) ==
    IF \E q \in Packers \ {p} : HoldsLease(locks, s, q, now)
    THEN strayWrite \cup {kind}
    ELSE strayWrite

\* history: a modification of shard s made by p after a renew of p for s failed
AfterLoss(p, s, kind) == IF lost[p][s] THEN lostWrite \cup {kind} ELSE lostWrite

(* _process_shard up to `today = date.today()`: try_acquire, return on     *)
(* conflict, lazily start the heartbeat task.                              *)
ProcessShard(p, s) ==
    /\ pc[p] = "idle"
    /\ LET ok == TryAcquireOk(locks, s, p, now) IN
        /\ locks' = TryAcquireRows(locks, s, p, now, LockTtl)
        /\ pc' = [pc EXCEPT ![p] = IF ok THEN "ensure" ELSE "idle"]
        /\ hb' = IF ok /\ hb[p][s] = NoHeartbeat
                 THEN [hb EXCEPT ![p][s] = now + HeartbeatInterval(LockTtl)]
                 ELSE hb
        /\ ptoday' = IF ok THEN [ptoday EXCEPT ![p] = today] ELSE ptoday
        /\ lost' = IF ok THEN [lost EXCEPT ![p][s] = FALSE] ELSE lost
    /\ UNCHANGED <<laterVars, claimVars, sweepVars, now, today, containers, store, source, clientVars, writers, batch, attempt,
                   strayWrite, lostWrite, finalized, putOk, uploadFailed, heldAtStop>>

\* mutant: a writer of another day is left as it is and today's writer is opened
EnsureWriter_NoFinalize(p, s) ==
    /\ pc[p] = "ensure"
    /\ LET w == writers[p][s] IN
        /\ writers' = writers
        /\ pc' = [pc EXCEPT ![p] = IF w # NoWriter /\ w.day = ptoday[p] THEN "claim" ELSE "create"]
    /\ UNCHANGED <<laterVars, claimVars, sweepVars, now, today, dbVars, clientVars, hb, ptoday, batch, attempt, packerHist>>

(* _ensure_writer, first part: a writer of another day is finalized first  *)
(* (writer.close() is local and immediate), a writer of today is kept.     *)
EnsureWriter(p, s) ==
    /\ pc[p] = "ensure"
    /\ LET w == writers[p][s] IN
        IF w # NoWriter /\ w.day # ptoday[p]
        THEN /\ writers' = [writers EXCEPT ![p][s].closed = TRUE]
             /\ pc' = [pc EXCEPT ![p] = "upload"]
        ELSE /\ writers' = writers
             /\ pc' = [pc EXCEPT ![p] = IF w # NoWriter THEN "claim" ELSE "create"]
    /\ UNCHANGED <<laterVars, claimVars, sweepVars, now, today, dbVars, clientVars, hb, ptoday, batch, attempt, packerHist>>

\* mutant: the upload's last failure is swallowed and finalize goes on
UploadNext_Swallow(outcome, a) ==
    IF outcome = "ok" THEN "record"
    ELSE IF outcome = "fatal" \/ a >= UploadMaxAttempts THEN "record"
    ELSE "upload"

(* _upload_to_s3 under async_retry(max_attempts = 5, RetryableS3Error):    *)
(* where the packer goes after one attempt with the given outcome.         *)
UploadNext(outcome, a) ==
    IF outcome = "ok" THEN "record"
    ELSE IF outcome = "fatal" \/ a >= UploadMaxAttempts THEN "crashed"
    ELSE "upload"

(* _finalize_writer: one attempt of storage.upload(path, dest_key). An     *)
(* exception that leaves _upload_to_s3 leaves _process_shard and           *)
(* run_forever too: the process ends.                                      *)
Upload(p, s) ==
    /\ pc[p] = "upload"
    /\ \E outcome \in {"ok", "retryable", "fatal"} :
        LET w == writers[p][s]
            nxt == UploadNext(outcome, attempt[p]) IN
        /\ pc' = [pc EXCEPT ![p] = nxt]
        /\ attempt' = [attempt EXCEPT ![p] = IF nxt = "upload" THEN @ + 1 ELSE 1]
        /\ store' = IF outcome = "ok"
                    THEN [store EXCEPT ![DestKey(s, w.day)] = ContainerObject(w)]
                    ELSE store
        /\ putOk' = IF outcome = "ok" THEN putOk \cup {w.container_id} ELSE putOk
        /\ uploadFailed' = IF nxt = "crashed" THEN uploadFailed \cup {w.container_id}
                           ELSE uploadFailed
        /\ strayWrite' = IF outcome = "ok" THEN Stray(p, s, "upload") ELSE strayWrite
        /\ lostWrite' = IF outcome = "ok" THEN AfterLoss(p, s, "upload") ELSE lostWrite
        /\ writers' = IF nxt = "crashed"
                      THEN [writers EXCEPT ![p] = [x \in PackerShards |-> NoWriter]]
                      ELSE writers
        /\ hb' = IF nxt = "crashed"
                 THEN [hb EXCEPT ![p] = [x \in PackerShards |-> NoHeartbeat]]
                 ELSE hb
    /\ UNCHANGED <<laterVars, claimVars, sweepVars, now, today, locks, containers, source, clientVars, ptoday, batch,
                   lost, finalized, heldAtStop>>

(* _finalize_writer, after the upload: the row becomes uploaded with the   *)
(* final counters, the writer state is deleted, and _ensure_writer goes on *)
(* to open today's writer. Nothing is told to the source provider.         *)
FinalizeRecord(p, s) ==
    /\ pc[p] = "record"
    /\ LET w == writers[p][s] IN
        /\ containers' = UpdateContainerRecord(containers, w.container_id, "uploaded",
                                               w.file_count, now)
        /\ finalized' = finalized \cup {[cid |-> w.container_id, files |-> w.files]}
        /\ strayWrite' = Stray(p, s, "finalize")
        /\ lostWrite' = AfterLoss(p, s, "finalize")
    /\ writers' = [writers EXCEPT ![p][s] = NoWriter]
    /\ pc' = [pc EXCEPT ![p] = "create"]
    /\ UNCHANGED <<laterVars, claimVars, sweepVars, now, today, locks, store, source, clientVars, hb, ptoday, batch, attempt,
                   lost, putOk, uploadFailed, heldAtStop>>

(* _ensure_writer, second part: DesWriter(local_path) and the INSERT of    *)
(* the container row in status writing.                                    *)
CreateWriter(p, s) ==
    /\ pc[p] = "create"
    /\ Len(containers) < MaxContainers
    /\ containers' = Append(containers, ContainerRow(s, ptoday[p], "writing", 0, now))
    /\ writers' = [writers EXCEPT ![p][s] =
                      [day |-> ptoday[p], container_id |-> Len(containers) + 1,
                       file_count |-> 0, files |-> {}, closed |-> FALSE,
                       last_checkpoint |-> now]]
    /\ pc' = [pc EXCEPT ![p] = "claim"]
    /\ UNCHANGED <<laterVars, claimVars, sweepVars, now, today, locks, store, source, clientVars, hb, ptoday, batch, attempt,
                   packerHist>>

(* _claim_files -> MultiSourceFileProvider.get_pending_files: claim, then  *)
(* download each claimed file; a failed download marks the row failed and  *)
(* leaves it out. An empty result returns from _process_shard.             *)
ClaimFiles(p, s) ==
    /\ pc[p] = "claim"
    /\ \E sel \in Selections(source, PendingIds(source), BatchSize) :
        LET mine == OfShard(source, sel, s) IN
        \E bad \in SUBSET mine :
            /\ source' = MarkFailed(MarkClaimed(source, mine, p, now), bad)
            /\ batch' = [batch EXCEPT ![p] = mine \ bad]
            /\ pc' = [pc EXCEPT ![p] = IF mine \ bad = {} THEN "idle" ELSE "add"]
    /\ UNCHANGED <<laterVars, claimVars, sweepVars, now, today, locks, containers, store, clientVars, writers, hb, ptoday,
                   attempt, packerHist>>

(* the add_file loop (no await inside); add_file on a closed writer raises *)
AddFiles(p, s) ==
    /\ pc[p] = "add"
    /\ LET w == writers[p][s] IN
        IF w.closed
        THEN /\ pc' = [pc EXCEPT ![p] = "crashed"]
             /\ writers' = [writers EXCEPT ![p] = [x \in PackerShards |-> NoWriter]]
             /\ hb' = [hb EXCEPT ![p] = [x \in PackerShards |-> NoHeartbeat]]
             /\ UNCHANGED <<strayWrite, lostWrite>>
        ELSE /\ pc' = [pc EXCEPT ![p] = "checkpoint"]
             /\ writers' = [writers EXCEPT ![p][s] =
                               [w EXCEPT !.files = @ \cup batch[p],
                                         !.file_count = @ + Cardinality(batch[p])]]
             /\ hb' = hb
             /\ strayWrite' = Stray(p, s, "add")
             /\ lostWrite' = AfterLoss(p, s, "add")
    /\ batch' = [batch EXCEPT ![p] = {}]
    /\ UNCHANGED <<laterVars, claimVars, sweepVars, now, today, dbVars, clientVars, ptoday, attempt,
                   lost, finalized, putOk, uploadFailed, heldAtStop>>

\* _maybe_checkpoint's condition
CheckpointDue(w, t) ==
    \/ w.file_count % CheckpointEveryFiles = 0
    \/ t - w.last_checkpoint >= CheckpointEverySeconds

MaybeCheckpoint(p, s) ==
    /\ pc[p] = "checkpoint"
    /\ LET w == writers[p][s] IN
        IF CheckpointDue(w, now)
        THEN /\ containers' = UpdateContainerRecord(containers, w.container_id, "writing",
                                                    w.file_count, NoTime)
             /\ writers' = [writers EXCEPT ![p][s].last_checkpoint = now]
             /\ strayWrite' = Stray(p, s, "checkpoint")
             /\ lostWrite' = AfterLoss(p, s, "checkpoint")
        ELSE UNCHANGED <<containers, writers, strayWrite, lostWrite>>
    /\ pc' = [pc EXCEPT ![p] = "idle"]
    /\ UNCHANGED <<laterVars, claimVars, sweepVars, now, today, locks, store, source, clientVars, hb, ptoday, batch, attempt,
                   lost, finalized, putOk, uploadFailed, heldAtStop>>

(* HeartbeatManager._run: after sleep(interval), renew; the result of      *)
(* renew_shard_lock is not looked at.                                      *)
Heartbeat(p, s) ==
    /\ pc[p] \notin {"crashed", "stopped"}
    /\ hb[p][s] # NoHeartbeat
    /\ now >= hb[p][s]
    /\ locks' = RenewRows(locks, s, p, now, LockTtl)
    /\ lost' = IF RenewOk(locks, s, p, now) THEN lost ELSE [lost EXCEPT ![p][s] = TRUE]
    /\ hb' = [hb EXCEPT ![p][s] = now + HeartbeatInterval(LockTtl)]
    /\ UNCHANGED <<laterVars, claimVars, sweepVars, now, today, containers, store, source, clientVars, pc, writers, ptoday,
                   batch, attempt, strayWrite, lostWrite, finalized, putOk, uploadFailed,
                   heldAtStop>>

(* SIGTERM / SIGINT: run_forever has no shutdown flag and no handler is    *)
(* registered for the packer, so the process ends where it stands.         *)
Shutdown(p) ==
    /\ pc[p] \notin {"crashed", "stopped"}
    /\ pc' = [pc EXCEPT ![p] = "stopped"]
    /\ heldAtStop' = [heldAtStop EXCEPT ![p] =
           {writers[p][s].container_id :
               s \in {x \in PackerShards : writers[p][x] # NoWriter /\ HoldsLease(locks, x, p, now)}}]
    /\ writers' = [writers EXCEPT ![p] = [x \in PackerShards |-> NoWriter]]
    /\ hb' = [hb EXCEPT ![p] = [x \in PackerShards |-> NoHeartbeat]]
    /\ batch' = [batch EXCEPT ![p] = {}]
    /\ attempt' = [attempt EXCEPT ![p] = 1]
    /\ UNCHANGED <<laterVars, claimVars, sweepVars, now, today, dbVars, clientVars, ptoday,
                   lost, strayWrite, lostWrite, finalized, putOk, uploadFailed>>

NextDay ==
    /\ today < MaxDay
    /\ today' = today + 1
    /\ UNCHANGED <<laterVars, claimVars, sweepVars, now, dbVars, clientVars, packerVars, packerHist>>

Init == LockInit

Next ==
    \/ \E p \in Packers, s \in PackerShards : ProcessShard(p, s)
    \/ \E p \in Packers, s \in PackerShards : EnsureWriter(p, s)
    \/ \E p \in Packers, s \in PackerShards : Upload(p, s)
    \/ \E p \in Packers, s \in PackerShards : FinalizeRecord(p, s)
    \/ \E p \in Packers, s \in PackerShards : CreateWriter(p, s)
    \/ \E p \in Packers, s \in PackerShards : ClaimFiles(p, s)
    \/ \E p \in Packers, s \in PackerShards : AddFiles(p, s)
    \/ \E p \in Packers, s \in PackerShards : MaybeCheckpoint(p, s)
    \/ \E p \in Packers, s \in PackerShards : Heartbeat(p, s)
    \/ \E p \in Packers : Shutdown(p)
    \/ Tick
    \/ NextDay

Spec == Init /\ [][Next]_vars

----------------------------------------------------------------------------
(* Concurrent claim_pending_files calls. The transaction opened by         *)
(* engine.begin() is two statements: the locking SELECT, then the UPDATE   *)
(* of the rows of the requested shard; leaving the block commits and       *)
(* releases the row locks, an exception rolls back.                        *)

ClaimInit ==
    /\ now = 0
    /\ today = 0
    /\ locks = {}
    /\ containers = << >>
    /\ store = [k \in Keys |-> NoObject]
    /\ source \in {[f \in Rows |-> SourceRow(f, st[f], "none", NoTime)] :
                       st \in [Rows -> {"pending", "packed"}]}
    /\ ClientInit
    /\ PackerInit
    /\ ClaimIdle
    /\ SweepIdle
    /\ LaterIdle

\* Step 1: SELECT ... WHERE status = pending LIMIT limit FOR UPDATE SKIP LOCKED
ClaimSelect(c, h, s, limit) ==
    /\ ~txn[c].open
    /\ \E sel \in Selections(source, PendingIds(source) \cap Unlocked(rowlock, source), limit) :
        IF sel = {}
        THEN /\ lastReturn' = [caller |-> c, holder |-> h, shard |-> s, files |-> {}, found |-> {}]
             /\ UNCHANGED <<rowlock, txn>>
        ELSE /\ rowlock' = [f \in DOMAIN source |-> IF f \in sel THEN c ELSE rowlock[f]]
             /\ txn' = [txn EXCEPT ![c] = [shard |-> s, holder |-> h, rows |-> sel, open |-> TRUE]]
             /\ UNCHANGED lastReturn
    /\ UNCHANGED <<laterVars, now, today, dbVars, clientVars, packerVars, packerHist, claimCount, sweepVars>>

\* Step 2: the shard filter, UPDATE ... WHERE id IN claimed_ids, commit
ClaimUpdate(c) ==
    /\ txn[c].open
    /\ LET mine == OfShard(source, txn[c].rows, txn[c].shard) IN
        /\ source' = MarkClaimed(source, mine, txn[c].holder, now)
        /\ claimCount' = [f \in DOMAIN source |-> claimCount[f] + (IF f \in mine THEN 1 ELSE 0)]
        /\ lastReturn' = [caller |-> c, holder |-> txn[c].holder, shard |-> txn[c].shard,
                          files |-> mine, found |-> {source[f].status : f \in mine}]
    /\ rowlock' = [f \in DOMAIN source |-> IF rowlock[f] = c THEN NoCaller ELSE rowlock[f]]
    /\ txn' = [txn EXCEPT ![c] = NoTxn]
    /\ UNCHANGED <<laterVars, now, today, locks, containers, store, clientVars, packerVars, packerHist,
                   sweepVars>>

\* an exception inside the block: rollback, nothing is claimed
ClaimRollback(c) ==
    /\ txn[c].open
    /\ rowlock' = [f \in DOMAIN source |-> IF rowlock[f] = c THEN NoCaller ELSE rowlock[f]]
    /\ txn' = [txn EXCEPT ![c] = NoTxn]
    /\ UNCHANGED <<laterVars, now, today, dbVars, clientVars, packerVars, packerHist, claimCount,
                   lastReturn, sweepVars>>

ClaimNext ==
    \/ \E c \in Callers, h \in Holders, s \in Shards, limit \in Limits : ClaimSelect(c, h, s, limit)
    \/ \E c \in Callers : ClaimUpdate(c)
    \/ \E c \in Callers : ClaimRollback(c)

SpecClaim == ClaimInit /\ [][ClaimNext]_vars

----------------------------------------------------------------------------
(* A recovery run. It finds the tables and the bucket as packers, crashes  *)
(* and earlier recovery runs may have left them: container rows in any     *)
(* status, young or past the grace period, with or without an object, the  *)
(* object healthy or not; objects without a row; stale and fresh claims;   *)
(* expired and live leases. The clock stands still over the run.           *)

RecKeys == {DestKey(s, 0) : s \in Shards}

\* a row's status and created_at: only a writing row's age is ever looked at
RecAges == {<<"writing", 0>>, <<"writing", MaxTime>>, <<"uploaded", 0>>, <<"failed", 0>>}

RecRows ==
    {[ContainerRow(s, 0, x[1], n, x[2]) EXCEPT
          !.finalized_at = IF x[1] = "writing" THEN NoTime ELSE 0] :
        s \in Shards, n \in {0, 1}, x \in RecAges}

RecContainers == UNION {[1 .. n -> RecRows] : n \in 0 .. MaxRecRows}

RecObjects ==
    {NoObject, InvalidObject,
     [valid |-> TRUE, file_count |-> 1, files |-> {1}, present |-> TRUE]}

RecStores == {[k \in Keys |-> IF k \in RecKeys THEN o[k] ELSE NoObject] : o \in [RecKeys -> RecObjects]}

RecSources == {[f \in Files |-> SourceRow(f, "claimed", "A", at)] : at \in {0, MaxTime}}

RecLocks == {ShardLock(0, "A", 0, 1), ShardLock(1, "B", MaxTime, LockTtl)}

RecoveryTables ==
    /\ now = MaxTime
    /\ today = 0
    /\ locks = RecLocks
    /\ containers \in RecContainers
    /\ store \in RecStores
    /\ source \in RecSources
    /\ ClientInit
    /\ PackerInit
    /\ ClaimIdle
    /\ LaterIdle

SweepsInit == RecoveryTables /\ SweepIdle

Returned(w, n, ch) ==
    [name |-> w, actions |-> n, changed |-> ch, repeat |-> lastSweep.name = w]

\* await manager.recover_stale_claims()
RunRecoverStaleClaims ==
    /\ source' = RecoverStaleClaims(source, now)
    /\ lastSweep' = Returned("stale", StaleClaimCount(source, now), source' # source)
    /\ UNCHANGED <<laterVars, now, today, locks, containers, store, clientVars, packerVars, packerHist,
                   claimVars, sess, init0>>

\* await manager.cleanup_partial_containers()
RunCleanupPartialContainers ==
    /\ LET r == CleanupPartialContainers(containers, store, now) IN
        /\ containers' = r.containers
        /\ store' = r.store
        /\ lastSweep' = Returned("partial", r.actions,
                                  r.containers # containers \/ r.store # store)
    /\ UNCHANGED <<laterVars, now, today, locks, source, clientVars, packerVars, packerHist,
                   claimVars, sess, init0>>

\* await manager.release_expired_locks()
RunReleaseExpiredLocks ==
    /\ locks' = locks \ ExpiredLockRows(locks, now)
    /\ lastSweep' = Returned("locks", Cardinality(ExpiredLockRows(locks, now)), locks' # locks)
    /\ UNCHANGED <<laterVars, now, today, containers, store, source, clientVars, packerVars, packerHist,
                   claimVars, sess, init0>>

\* await manager.verify_container_integrity()
RunVerifyContainerIntegrity ==
    /\ LET r == VerifyContainerIntegrity(containers, store, now) IN
        /\ containers' = r.containers
        /\ store' = r.store
        /\ lastSweep' = Returned("integrity", r.actions,
                                  r.containers # containers \/ r.store # store)
    /\ UNCHANGED <<laterVars, now, today, locks, source, clientVars, packerVars, packerHist,
                   claimVars, sess, init0>>

SweepsNext ==
    \/ RunRecoverStaleClaims
    \/ RunCleanupPartialContainers
    \/ RunReleaseExpiredLocks
    \/ RunVerifyContainerIntegrity

SpecSweeps == SweepsInit /\ [][SweepsNext]_vars

----------------------------------------------------------------------------
(* The four sweeps run concurrently, each once. recover_stale_claims and   *)
(* release_expired_locks are one statement each. cleanup_partial_containers *)
(* and verify_container_integrity load their rows into an ORM session,     *)
(* await the object store once or twice per container, set attributes on   *)
(* the loaded objects and write them at commit: the flush updates the      *)
(* attributes whose value differs from the loaded one. The UPDATE that     *)
(* verify_container_integrity executes for a file_count is sent at once    *)
(* (after an autoflush of what is dirty by then), is visible to others at  *)
(* commit, and keeps its rows locked until then.                           *)

Attrs == {"status", "finalized_at", "file_count"}

\* the rows a SELECT returns, as loaded objects, in id order
Loaded(ctbl, ids) ==
    LET all == [i \in 1 .. Len(ctbl) |-> [id |-> i, row |-> ctbl[i]]]
        Hit(x) == x.id \in ids
    IN  SelectSeq(all, Hit)

\* the attribute assignments that change the loaded object
Dirty(c, new) == {<<c.id, a, new[a]>> : a \in {b \in Attrs : new[b] # c.row[b]}}

\* the session's pending assignments after the loop body has run for c
Assign(dirty, c, new) == dirty \cup Dirty(c, new)

\* UPDATE des_containers SET attr = value WHERE id = id, for every pending assignment
Flush(ctbl, dirty) ==
    [i \in 1 .. Len(ctbl) |->
        [a \in DOMAIN ctbl[i] |->
            IF \E d \in dirty : d[1] = i /\ d[2] = a
            THEN (CHOOSE d \in dirty : d[1] = i /\ d[2] = a)[3]
            ELSE ctbl[i][a]]]

Session(rows, during) ==
    [pc |-> IF Len(rows) = 0 THEN "commit" ELSE "exists", loaded |-> rows, idx |-> 1,
     dirty |-> {}, locked |-> {}, keys |-> {}, orphaned |-> {}, actions |-> 0,
     during |-> during]

UnderWay == {w \in Sweeps : sess[w].pc \notin {"start", "done"}}

\* the loop goes on to the next container, or leaves for the commit
Advance(ss) ==
    [ss EXCEPT !.idx = @ + 1, !.pc = IF ss.idx < Len(ss.loaded) THEN "exists" ELSE "commit"]

Tables == [containers |-> containers, store |-> store, source |-> source, locks |-> locks]

RecoveryInit ==
    /\ RecoveryTables
    /\ sess = [w \in Sweeps |-> NoSession]
    /\ init0 = Tables
    /\ lastSweep = NoSweep

StaleClaimsSweep ==
    /\ sess["stale"].pc = "start"
    /\ source' = RecoverStaleClaims(source, now)
    /\ sess' = [sess EXCEPT !["stale"] = [pc |-> "done", locked |-> {}]]
    /\ UNCHANGED <<laterVars, now, today, locks, containers, store, clientVars, packerVars, packerHist,
                   claimVars, init0, lastSweep>>

ExpiredLocksSweep ==
    /\ sess["locks"].pc = "start"
    /\ locks' = locks \ ExpiredLockRows(locks, now)
    /\ sess' = [sess EXCEPT !["locks"] = [pc |-> "done", locked |-> {}]]
    /\ UNCHANGED <<laterVars, now, today, containers, store, source, clientVars, packerVars, packerHist,
                   claimVars, init0, lastSweep>>

\* cleanup_partial_containers: the SELECT
PartialSelect ==
    /\ sess["partial"].pc = "start"
    /\ sess' = [sess EXCEPT !["partial"] =
                    Session(Loaded(containers, PartialIds(containers, now)), UnderWay)]
    /\ UNCHANGED <<laterVars, now, today, dbVars, clientVars, packerVars, packerHist, claimVars,
                   init0, lastSweep>>

\* exists = await self._s3_exists(container.s3_key), and the branch `if not exists`
PartialExists ==
    LET ss == sess["partial"] IN
    /\ ss.pc = "exists"
    /\ LET c == ss.loaded[ss.idx] IN
        IF S3Exists(store, c.row.s3_key)
        THEN sess' = [sess EXCEPT !["partial"].pc = "validate"]
        ELSE sess' = [sess EXCEPT !["partial"] =
                 Advance([ss EXCEPT !.dirty = Assign(@, c, PartialContainer(c.row, store, now).row),
                                    !.actions = @ + 1])]
    /\ UNCHANGED <<laterVars, now, today, dbVars, clientVars, packerVars, packerHist, claimVars,
                   init0, lastSweep>>

\* await self._validate_container(container.s3_key), and the rest of the loop body
PartialValidate ==
    LET ss == sess["partial"] IN
    /\ ss.pc = "validate"
    /\ LET c == ss.loaded[ss.idx]
           v == ValidateContainer(store, c.row.s3_key)
           new == IF v.valid
                  THEN PartialContainer(c.row, store, now).row
                  ELSE [c.row EXCEPT !.status = "failed", !.finalized_at = now]
       IN  /\ store' = IF v.valid THEN store ELSE DeleteS3Object(store, c.row.s3_key)
           /\ sess' = [sess EXCEPT !["partial"] =
                          Advance([ss EXCEPT !.dirty = Assign(@, c, new), !.actions = @ + 1])]
    /\ UNCHANGED <<laterVars, now, today, locks, containers, source, clientVars, packerVars, packerHist,
                   claimVars, init0, lastSweep>>

\* await session.commit(): the flush waits for the rows another transaction has updated
PartialCommit ==
    LET ss == sess["partial"] IN
    /\ ss.pc = "commit"
    /\ \A d \in ss.dirty : d[1] \notin sess["integrity"].locked
    /\ containers' = Flush(containers, ss.dirty)
    /\ sess' = [sess EXCEPT !["partial"].pc = "done"]
    /\ UNCHANGED <<laterVars, now, today, locks, store, source, clientVars, packerVars, packerHist,
                   claimVars, init0, lastSweep>>

\* verify_container_integrity: the SELECT of every container
IntegritySelect ==
    /\ sess["integrity"].pc = "start"
    /\ sess' = [sess EXCEPT !["integrity"] =
                    [Session(Loaded(containers, 1 .. Len(containers)), UnderWay)
                        EXCEPT !.keys = DbKeys(containers)]]
    /\ UNCHANGED <<laterVars, now, today, dbVars, clientVars, packerVars, packerHist, claimVars,
                   init0, lastSweep>>

\* exists = await self._s3_exists(container.s3_key), and the branch `if not exists`
IntegrityExists ==
    LET ss == sess["integrity"] IN
    /\ ss.pc = "exists"
    /\ LET c == ss.loaded[ss.idx] IN
        IF S3Exists(store, c.row.s3_key)
        THEN sess' = [sess EXCEPT !["integrity"].pc = "validate"]
        ELSE sess' = [sess EXCEPT !["integrity"] =
                 Advance([ss EXCEPT !.dirty = Assign(@, c, IntegrityContainer(c.row, store, now).row),
                                    !.actions = @ + 1])]
    /\ UNCHANGED <<laterVars, now, today, dbVars, clientVars, packerVars, packerHist, claimVars,
                   init0, lastSweep>>

(* await self._validate_container(container.s3_key), and the rest of the   *)
(* loop body; the file_count UPDATE is executed here, after an autoflush.  *)
IntegrityValidate ==
    LET ss == sess["integrity"] IN
    /\ ss.pc = "validate"
    /\ LET c == ss.loaded[ss.idx]
           v == ValidateContainer(store, c.row.s3_key)
           drift == v.valid /\ v.file_count # NoCount /\ v.file_count # c.row.file_count
           new == IF v.valid
                  THEN IntegrityContainer(c.row, store, now).row
                  ELSE [c.row EXCEPT !.status = "failed", !.finalized_at = now]
       IN  /\ store' = IF v.valid THEN store ELSE DeleteS3Object(store, c.row.s3_key)
           /\ sess' = [sess EXCEPT !["integrity"] =
                  Advance([ss EXCEPT
                      !.dirty = Assign(@, c, new),
                      !.locked = IF drift THEN @ \cup {d[1] : d \in ss.dirty} \cup {c.id} ELSE @,
                      !.actions = @ + (IF v.valid /\ ~drift THEN 0 ELSE 1)])]
    /\ UNCHANGED <<laterVars, now, today, locks, containers, source, clientVars, packerVars, packerHist,
                   claimVars, init0, lastSweep>>

\* await session.commit()
IntegrityCommit ==
    LET ss == sess["integrity"] IN
    /\ ss.pc = "commit"
    /\ containers' = Flush(containers, ss.dirty)
    /\ sess' = [sess EXCEPT !["integrity"].pc = "orphans", !["integrity"].locked = {}]
    /\ UNCHANGED <<laterVars, now, today, locks, store, source, clientVars, packerVars, packerHist,
                   claimVars, init0, lastSweep>>

\* orphaned = await self._find_orphaned_s3(db_keys)
IntegrityOrphans ==
    LET ss == sess["integrity"] IN
    /\ ss.pc = "orphans"
    /\ sess' = [sess EXCEPT !["integrity"].orphaned = FindOrphanedS3(store, ss.keys),
                            !["integrity"].pc = "purge"]
    /\ UNCHANGED <<laterVars, now, today, dbVars, clientVars, packerVars, packerHist, claimVars,
                   init0, lastSweep>>

\* for key in orphaned: await self._delete_s3_object(key)
IntegrityPurge ==
    LET ss == sess["integrity"] IN
    /\ ss.pc = "purge"
    /\ store' = RemoveObjects(store, ss.orphaned)
    /\ sess' = [sess EXCEPT !["integrity"].actions = @ + Cardinality(ss.orphaned),
                            !["integrity"].pc = "done"]
    /\ UNCHANGED <<laterVars, now, today, locks, containers, source, clientVars, packerVars, packerHist,
                   claimVars, init0, lastSweep>>

RecoveryNext ==
    \/ StaleClaimsSweep
    \/ ExpiredLocksSweep
    \/ PartialSelect
    \/ PartialExists
    \/ PartialValidate
    \/ PartialCommit
    \/ IntegritySelect
    \/ IntegrityExists
    \/ IntegrityValidate
    \/ IntegrityCommit
    \/ IntegrityOrphans
    \/ IntegrityPurge

SpecRecovery == RecoveryInit /\ [][RecoveryNext]_vars

\* one sweep run from start to end on the tables db
ApplySweep(w, db, t) ==
    IF w = "stale" THEN [db EXCEPT !.source = RecoverStaleClaims(db.source, t)]
    ELSE IF w = "locks" THEN [db EXCEPT !.locks = db.locks \ ExpiredLockRows(db.locks, t)]
    ELSE LET r == IF w = "partial"
                  THEN CleanupPartialContainers(db.containers, db.store, t)
                  ELSE VerifyContainerIntegrity(db.containers, db.store, t)
         IN  [db EXCEPT !.containers = r.containers, !.store = r.store]

\* the sweeps run one after another in the order o
RunOrder(o, db, t) ==
    ApplySweep(o[4], ApplySweep(o[3], ApplySweep(o[2], ApplySweep(o[1], db, t), t), t), t)

Orders == {o \in [1 .. 4 -> Sweeps] : \A i, j \in 1 .. 4 : i # j => o[i] # o[j]}

AllDone == \A w \in Sweeps : sess[w].pc = "done"

----------------------------------------------------------------------------
(* C1: lease safety. At every moment a shard has at most one row, at most  *)
(* one effective row, and at most one holder whose last grant              *)
(* (try_acquire or renew success) has not yet run out.                     *)
C1_LeaseSafety ==
    \A s \in Shards :
        /\ Cardinality(Conflicting(locks, s)) <= 1
        /\ Cardinality({r \in Conflicting(locks, s) : Effective(r, now)}) <= 1
        /\ Cardinality({h \in Holders : grant[h][s] > now}) <= 1
        /\ \A h \in Holders : grant[h][s] > now =>
              \E r \in Conflicting(locks, s) : r.holder_id = h /\ r.expires_at = grant[h][s]

\* B has just taken over a shard A held, and A's grant has run out
C1_Witness ==
    /\ lastCall.op = "try_acquire" /\ lastCall.ok /\ lastCall.pre = "other_expired"
    /\ \E s \in Shards, h \in Holders :
          /\ lastCall.shard = s /\ lastCall.holder # h
          /\ grant[h][s] > 0 /\ grant[h][s] <= now
          /\ grant[lastCall.holder][s] > now

(* C4: lease takeover. A try_acquire by another holder whose clock reading *)
(* is past expires_at succeeds; a renew by the old holder issued once the  *)
(* lease has run out fails, before the takeover as well as after it.       *)
C4_Takeover ==
    /\ (lastCall.op = "try_acquire" /\ lastCall.pre = "other_expired") => lastCall.ok
    /\ (lastCall.op = "renew" /\ lastCall.pre \in {"own_expired", "other_live", "other_edge", "other_expired", "no_row"})
          => ~lastCall.ok

\* the old holder's renew has just failed against the new holder's live row
C4_Witness ==
    /\ lastCall.op = "renew" /\ lastCall.pre = "other_live" /\ ~lastCall.ok
    /\ \E s \in Shards : lastCall.shard = s /\ grant[lastCall.holder][s] = 0
          /\ \E h \in Holders : h # lastCall.holder /\ grant[h][s] > now

(* C2: exclusive ownership of a shard's writer state. No packer appends    *)
(* to, checkpoints, uploads or finalizes a shard's container while another *)
(* packer holds the shard's effective lease.                               *)
C2_ExclusiveOwnership == strayWrite = {}

(* C3: lease-lost handling. Once a renew of p for shard s has failed, p    *)
(* holds no writer state for s and appends, checkpoints and uploads        *)
(* nothing for s under the lost lease.                                     *)
C3_LeaseLost ==
    /\ \A p \in Packers, s \in PackerShards : lost[p][s] => writers[p][s] = NoWriter
    /\ lostWrite = {}

(* C6: once _finalize_writer has returned for a container, every source    *)
(* row whose file was appended to it is in status packed.                  *)
C6_PackedAfterFinalize ==
    \A x \in finalized : \A f \in x.files : source[f].status = "packed"

(* C7: a container row is in status writing from its creation on and is    *)
(* moved to uploaded by the packer only after the PUT of its object        *)
(* succeeded; a row whose upload gave up stays writing.                    *)
C7_UploadedAfterPut ==
    \A c \in 1 .. Len(containers) :
        /\ containers[c].status \in {"writing", "uploaded"}
        /\ containers[c].status = "uploaded" =>
              c \in putOk /\ store[containers[c].s3_key].present
        /\ c \in uploadFailed => containers[c].status = "writing"

\* one container was uploaded and recorded, another one's upload gave up after its retries
C7_Witness ==
    /\ \E c \in 1 .. Len(containers) : containers[c].status = "uploaded" /\ c \in putOk
    /\ \E c \in uploadFailed : containers[c].status = "writing"
    /\ \E p \in Packers : pc[p] = "crashed"

(* C8: graceful shutdown. A packer that has stopped has finalized every    *)
(* writer whose lease it still held when it was asked to stop: the         *)
(* container row is uploaded.                                              *)
C8_GracefulShutdown ==
    \A p \in Packers : pc[p] = "stopped" =>
        \A c \in heldAtStop[p] : containers[c].status = "uploaded"

(* C5: claiming is atomic. Under every interleaving of claim_pending_files *)
(* calls each row is returned by at most one call, a row is claimed iff a  *)
(* call returned it, and every file a call returns is of the requested     *)
(* shard and was pending when the call updated it.                         *)
C5_ClaimAtomic ==
    /\ \A f \in DOMAIN source :
          /\ claimCount[f] <= 1
          /\ claimCount[f] = 1 <=> source[f].status = "claimed"
    /\ \A f \in lastReturn.files : source[f].shard = lastReturn.shard
    /\ lastReturn.found \subseteq {"pending"}

(* a call has just returned a file while another call's transaction is     *)
(* open on locked rows, and the other holder has claimed a row before      *)
C5_Witness ==
    /\ lastReturn.files # {}
    /\ \E c \in Callers : c # lastReturn.caller /\ txn[c].open /\ txn[c].rows # {}
    /\ \E f \in DOMAIN source :
          source[f].status = "claimed" /\ source[f].claimed_by # lastReturn.holder

(* C9: recovery idempotence. A sweep that is invoked again right after it  *)
(* returned, nothing else having happened in between, changes no row and   *)
(* no object and returns 0.                                                *)
C9_RecoveryIdempotent ==
    lastSweep.repeat => (lastSweep.actions = 0 /\ ~lastSweep.changed)

----------------------------------------------------------------------------
(* Container codec: one DesWriter and one DesReader on one local file.     *)
(* A byte is a number. The file is its header, data and meta bytes (body), *)
(* followed by the index entries and the footer fields. The writer has no  *)
(* external storage configured, so that every file is stored inline.       *)

HEADER_SIZE == 16
FOOTER_SIZE == 72
ENTRY_FIXED_SIZE == 44
VERSION == 1
FOOTER_MAGIC == "DESFOOT1"

MaxAdds == 2
MaxData == 1
MaxBatch == 2
MaxGap == 1

\* names offered to add_file; the last one has a character outside [a-zA-Z0-9_.-]
DesNames == {"a", "b", "a b"}

DataBytes == {1, 2}

Datas == UNION {[1..n -> DataBytes] : n \in 0..MaxData}

\* a dict is a function from its keys; json.dumps writes a key as one byte
KeyByte == [mime |-> 109, size |-> 115]

Metas == {[k \in ks |-> 7] : ks \in {{}, {"mime"}, {"size"}}}

DictSet(d, k, v) == [x \in DOMAIN d \cup {k} |-> IF x = k THEN v ELSE d[x]]

RECURSIVE JsonPairs(_, _)
JsonPairs(d, ks) ==
    IF ks = {} THEN << >>
    ELSE LET k == CHOOSE x \in ks : \A y \in ks : KeyByte[x] <= KeyByte[y]
         IN <<KeyByte[k], d[k]>> \o JsonPairs(d, ks \ {k})

\* json.dumps(meta_dict, separators=(",", ":")).encode("utf-8")
JsonDumps(d) == <<123>> \o JsonPairs(d, DOMAIN d) \o <<125>>

\* json.loads(raw.decode("utf-8"))
JsonLoads(raw) ==
    LET n == (Len(raw) - 2) \div 2
        key(i) == CHOOSE k \in DOMAIN KeyByte : KeyByte[k] = raw[2 * i]
    IN [k \in {key(i) : i \in 1..n} |-> raw[2 * (CHOOSE i \in 1..n : key(i) = k) + 1]]

\* DesWriter._validate_filename
ValidFilename(name) == name # "" /\ name \in {"a", "b"}

IndexEntry(name, doff, dlen, moff, mlen, flags) ==
    [name |-> name, data_offset |-> doff, data_length |-> dlen,
     meta_offset |-> moff, meta_length |-> mlen, flags |-> flags]

NoFooter == [magic |-> "none"]

NoResult == [op |-> "none"]

\* DesWriter.__init__: the header is written, nothing else
NewWriter ==
    [pc |-> "writer", closed |-> FALSE, body |-> [i \in 1..HEADER_SIZE |-> 0],
     entries |-> << >>, meta_buf |-> << >>, index |-> << >>, footer |-> NoFooter,
     inputs |-> << >>, flipped |-> "none", raised |-> "none", reader |-> "none",
     index_by_name |-> << >>, result |-> NoResult]

RECURSIVE IndexLength(_)
IndexLength(es) ==
    IF es = << >> THEN 0
    ELSE 2 + Len(Head(es).name) + ENTRY_FIXED_SIZE + IndexLength(Tail(es))

\* os.path.getsize of the file
FileSize(d) == Len(d.body) + IndexLength(d.index) + FOOTER_SIZE

\* DesWriter.add_file
AddFileState(d, name, data, meta) ==
    IF d.closed THEN [d EXCEPT !.raised = "RuntimeError"]
    ELSE IF ~ValidFilename(name) THEN [d EXCEPT !.raised = "ValueError"]
    ELSE LET data_offset == Len(d.body)
             meta_dict == DictSet(meta, "size", Len(data))
             meta_bytes == JsonDumps(meta_dict)
             entry == IndexEntry(name, data_offset, Len(data), Len(d.meta_buf),
                                 Len(meta_bytes), 0)
         IN [d EXCEPT !.body = @ \o data,
                      !.meta_buf = @ \o meta_bytes,
                      !.entries = Append(@, entry),
                      !.inputs = Append(@, [name |-> name, data |-> data, meta |-> meta]),
                      !.raised = "none"]

\* DesWriter.close
CloseState(d) ==
    LET data_length == Len(d.body) - HEADER_SIZE
        meta_start == Len(d.body)
        meta_length == Len(d.meta_buf)
        index_start == meta_start + meta_length
        index == [i \in 1..Len(d.entries) |->
                      [d.entries[i] EXCEPT !.meta_offset = meta_start + @]]
    IN [d EXCEPT !.closed = TRUE,
                 !.body = @ \o d.meta_buf,
                 !.entries = index,
                 !.index = index,
                 !.footer = [magic |-> FOOTER_MAGIC, version |-> VERSION,
                             data_start |-> HEADER_SIZE, data_length |-> data_length,
                             meta_start |-> meta_start, meta_length |-> meta_length,
                             index_start |-> index_start,
                             index_length |-> IndexLength(index),
                             file_count |-> Len(index)],
                 !.raised = "none"]

\* DesReader._parse_footer: the magic and the version are all it looks at
FooterAccepted(f) == f.magic = FOOTER_MAGIC /\ f.version = VERSION

\* the reader's index: a dict in insertion order, a sequence of entries of distinct names
HasName(idx, name) == \E i \in DOMAIN idx : idx[i].name = name

Entry(idx, name) == idx[CHOOSE i \in DOMAIN idx : idx[i].name = name]

\* DesReader._load_index: idx[name] = IndexEntry(...), entry after entry
RECURSIVE LoadIndex(_, _)
LoadIndex(es, idx) ==
    IF es = << >> THEN idx
    ELSE LET e == Head(es)
         IN LoadIndex(Tail(es),
                      IF HasName(idx, e.name)
                      THEN [i \in DOMAIN idx |-> IF idx[i].name = e.name THEN e ELSE idx[i]]
                      ELSE Append(idx, e))

\* DesReader._read_range: seek(offset), read(length)
ReadRange(d, offset, length) ==
    SubSeq(d.body, offset + 1, IF offset + length <= Len(d.body) THEN offset + length
                                ELSE Len(d.body))

\* DesReader.get_file
GetFile(d, name) ==
    IF ~HasName(d.index_by_name, name)
    THEN [op |-> "get_file", raised |-> "KeyError", name |-> name]
    ELSE LET e == Entry(d.index_by_name, name)
         IN [op |-> "get_file", raised |-> "none", name |-> name,
             value |-> ReadRange(d, e.data_offset, e.data_length)]

\* DesReader.get_meta
GetMeta(d, name) ==
    IF ~HasName(d.index_by_name, name)
    THEN [op |-> "get_meta", raised |-> "KeyError", name |-> name]
    ELSE LET e == Entry(d.index_by_name, name)
         IN [op |-> "get_meta", raised |-> "none", name |-> name,
             value |-> JsonLoads(ReadRange(d, e.meta_offset, e.meta_length))]

\* DesReader.list_files
ListFiles(d) ==
    [op |-> "list_files", raised |-> "none",
     value |-> [i \in DOMAIN d.index_by_name |-> d.index_by_name[i].name]]

\* sorted(entries, key=lambda e: e.data_offset): a stable sort
RECURSIVE SortByOffset(_)
SortByOffset(es) ==
    IF es = << >> THEN << >>
    ELSE LET s == SortByOffset(SubSeq(es, 1, Len(es) - 1))
             e == es[Len(es)]
             k == Cardinality({i \in DOMAIN s : s[i].data_offset <= e.data_offset})
         IN SubSeq(s, 1, k) \o <<e>> \o SubSeq(s, k + 1, Len(s))

\* DesReader._entries_for_names
EntriesForNames(d, names) ==
    LET found == SelectSeq(names, LAMBDA n : HasName(d.index_by_name, n))
    IN SortByOffset([i \in DOMAIN found |-> Entry(d.index_by_name, found[i])])

\* DesReader._group_entries, from the second entry on
RECURSIVE GroupFrom(_, _, _, _)
GroupFrom(rest, current_batch, batches, max_gap_size) ==
    IF rest = << >> THEN Append(batches, current_batch)
    ELSE LET entry == Head(rest)
             prev == current_batch[Len(current_batch)]
             gap == entry.data_offset - (prev.data_offset + prev.data_length)
         IN IF gap <= max_gap_size
            THEN GroupFrom(Tail(rest), Append(current_batch, entry), batches, max_gap_size)
            ELSE GroupFrom(Tail(rest), <<entry>>, Append(batches, current_batch), max_gap_size)

GroupEntries(entries, max_gap_size) ==
    IF entries = << >> THEN << >>
    ELSE GroupFrom(Tail(entries), <<Head(entries)>>, << >>, max_gap_size)

\* batch_data[file_start:file_end]
Slice(s, a, b) == SubSeq(s, a + 1, IF b <= Len(s) THEN b ELSE Len(s))

\* one batch of DesReader._fetch_batches: one read up to the end of the LAST entry
FetchBatch(d, entries, results) ==
    LET first == entries[1]
        last == entries[Len(entries)]
        start_offset == first.data_offset
        end_offset == last.data_offset + last.data_length
        batch_data == ReadRange(d, start_offset, end_offset - start_offset)
        name(i) == entries[i].name
        got(i) == Slice(batch_data, entries[i].data_offset - start_offset,
                        entries[i].data_offset - start_offset + entries[i].data_length)
    IN [n \in DOMAIN results \cup {name(i) : i \in DOMAIN entries} |->
            IF \E i \in DOMAIN entries : name(i) = n
            THEN got(CHOOSE i \in DOMAIN entries :
                         name(i) = n /\ \A j \in DOMAIN entries : name(j) = n => j <= i)
            ELSE results[n]]

\* DesReader._fetch_batches
RECURSIVE FetchBatches(_, _, _)
FetchBatches(d, batches, results) ==
    IF batches = << >> THEN results
    ELSE FetchBatches(d, Tail(batches), FetchBatch(d, Head(batches), results))

\* DesReader.get_files_batch: a dict, name -> bytes
GetFilesBatch(d, names, max_gap_size) ==
    [op |-> "get_files_batch", raised |-> "none", names |-> names,
     value |-> FetchBatches(d, GroupEntries(EntriesForNames(d, names), max_gap_size), << >>)]

\* one byte of a little-endian field is overwritten: byte k of v becomes b
FlipPositions == {0, 1}

FlipBytes == {0, 1, 255}

FlipByte(v, k, b) == v - ((v \div (256 ^ k)) % 256) * (256 ^ k) + b * (256 ^ k)

FooterNumbers ==
    {"version", "data_start", "data_length", "meta_start", "meta_length",
     "index_start", "index_length", "file_count"}

\* the footer after the flip of one byte of the named field
Flipped(f, field, k, b) ==
    IF field = "magic" THEN [f EXCEPT !.magic = "flipped"]
    ELSE [f EXCEPT ![field] = FlipByte(@, IF field = "version" THEN 0 ELSE k, b)]

DesInit == CoreIdle /\ IdleBut({"des"}) /\ des = NewWriter

\* writer.add_file(name, data, meta)
DesAddFile(name, data, meta) ==
    /\ des.pc = "writer"
    /\ des.closed \/ Len(des.inputs) < MaxAdds
    /\ des' = AddFileState(des, name, data, meta)
    /\ UNCHANGED <<coreVars, codecRest>>

\* writer.close(): a second close returns at once
DesClose ==
    /\ des.pc = "writer"
    /\ des' = IF des.closed THEN des ELSE CloseState(des)
    /\ UNCHANGED <<coreVars, codecRest>>

\* one byte of the footer of the closed file is overwritten
DesFlip(field, k, b) ==
    /\ des.pc = "writer"
    /\ des.closed
    /\ des.flipped = "none"
    /\ Flipped(des.footer, field, k, b) # des.footer
    /\ des' = [des EXCEPT !.footer = Flipped(@, field, k, b), !.flipped = field]
    /\ UNCHANGED <<coreVars, codecRest>>

\* DesReader(path): the file is at least MIN_DES_FILE_SIZE long, the footer is parsed
DesOpen ==
    /\ des.pc = "writer"
    /\ des.closed
    /\ des' = [des EXCEPT !.pc = "reader",
                          !.reader = IF FooterAccepted(des.footer) THEN "open" ELSE "rejected",
                          !.raised = IF FooterAccepted(des.footer) THEN "none" ELSE "ValueError"]
    /\ UNCHANGED <<coreVars, codecRest>>

\* the reader after self._load_index()
WithIndex(d) == [d EXCEPT !.index_by_name = LoadIndex(d.index, << >>)]

\* reads of a file whose footer was overwritten are left out
Readable == des.pc = "reader" /\ des.reader = "open" /\ des.flipped = "none"

DesGetFile(name) ==
    /\ Readable
    /\ des' = [WithIndex(des) EXCEPT !.result = GetFile(WithIndex(des), name)]
    /\ UNCHANGED <<coreVars, codecRest>>

DesGetMeta(name) ==
    /\ Readable
    /\ des' = [WithIndex(des) EXCEPT !.result = GetMeta(WithIndex(des), name)]
    /\ UNCHANGED <<coreVars, codecRest>>

DesListFiles ==
    /\ Readable
    /\ des' = [WithIndex(des) EXCEPT !.result = ListFiles(WithIndex(des))]
    /\ UNCHANGED <<coreVars, codecRest>>

NameLists == UNION {[1..n -> DesNames] : n \in 0..MaxBatch}

DesGetFilesBatch(names, max_gap_size) ==
    /\ Readable
    /\ des' = [WithIndex(des) EXCEPT !.result = GetFilesBatch(WithIndex(des), names, max_gap_size)]
    /\ UNCHANGED <<coreVars, codecRest>>

DesNext ==
    \/ \E name \in DesNames, data \in Datas, meta \in Metas : DesAddFile(name, data, meta)
    \/ DesClose
    \/ \E field \in FooterNumbers \cup {"magic"}, k \in FlipPositions, b \in FlipBytes :
           DesFlip(field, k, b)
    \/ DesOpen
    \/ \E name \in DesNames : DesGetFile(name)
    \/ \E name \in DesNames : DesGetMeta(name)
    \/ DesListFiles
    \/ \E names \in NameLists, g \in -1..MaxGap : DesGetFilesBatch(names, g)

SpecCodec == DesInit /\ [][DesNext]_vars

----------------------------------------------------------------------------
(* C11: round trip. Once the files accepted by add_file are written, the   *)
(* writer closed and the file reopened, get_file(name_i) returns bytes_i,  *)
(* get_meta(name_i) returns meta_i, and list_files() returns the input     *)
(* names, one for one.                                                     *)
C11_RoundTrip ==
    LET in == des.inputs
        r == des.result
    IN /\ r.op \in {"get_file", "get_meta"} /\ (\E i \in DOMAIN in : in[i].name = r.name)
            => r.raised = "none"
       /\ r.op = "get_file" /\ r.raised = "none"
            => \A i \in DOMAIN in : in[i].name = r.name => r.value = in[i].data
       /\ r.op = "get_meta" /\ r.raised = "none"
            => \A i \in DOMAIN in : in[i].name = r.name => r.value = in[i].meta
       /\ r.op = "list_files" => r.value = [i \in DOMAIN in |-> in[i].name]

(* C12: batch equivalence. get_files_batch(names, max_gap_size) returns,   *)
(* for the names that exist in the container, what get_file returns for    *)
(* each of them, and nothing for the others.                               *)
C12_BatchEquivalence ==
    LET r == des.result
        existing == {n \in {r.names[i] : i \in DOMAIN r.names} : HasName(des.index_by_name, n)}
    IN r.op = "get_files_batch"
         => r.value = [n \in existing |-> GetFile(des, n).value]

(* C13: footer strictness. A file in whose footer one byte of the magic,   *)
(* of the version or of an offset was overwritten, so that the magic, the  *)
(* version or a region invariant no longer holds, is not opened.           *)
C13_FooterStrictness ==
    LET f == des.footer
    IN des.flipped # "none" /\ des.reader = "open"
         => /\ f.magic = FOOTER_MAGIC
            /\ f.version = VERSION
            /\ f.data_start = HEADER_SIZE
            /\ f.data_start + f.data_length = f.meta_start
            /\ f.meta_start + f.meta_length = f.index_start
            /\ f.index_start + f.index_length = FileSize(des) - FOOTER_SIZE
            /\ f.file_count * (2 + ENTRY_FIXED_SIZE) <= f.index_length

(* C14: no two index entries of a closed container have the same name.     *)
C14_UniqueNames ==
    des.closed
        => \A i, j \in DOMAIN des.index : des.index[i].name = des.index[j].name => i = j

----------------------------------------------------------------------------
(* Shard ids. A string is the sequence of its "/"-separated parts. SHA-256 *)
(* is some function of the string, fixed at the start; of a digest the     *)
(* first two bytes are kept, which is what every caller with n_bits <= 16  *)
(* looks at.                                                               *)

Digests == {<<b1, b2>> : b1 \in {18, 255}, b2 \in {0, 128}}

ShardBits == {4, 8, 12}

\* hashlib.sha256(value.encode("utf-8")).hexdigest(), its first four digits
HexDigest(value) ==
    LET d == sha[value] IN <<d[1] \div 16, d[1] % 16, d[2] \div 16, d[2] % 16>>

\* int(digest[:2], 16)
HexByte(hex) == hex[1] * 16 + hex[2]

\* consistent_hash(value, n_bits): (hash_int >> (256 - n_bits)) & ((1 << n_bits) - 1)
consistent_hash(value, n_bits) ==
    LET d == sha[value] IN ((d[1] * 256 + d[2]) \div (2 ^ (16 - n_bits))) % (2 ^ n_bits)

\* sf.s3_key.split("/")[-1]
Basename(key) == <<key[Len(key)]>>

NoShard == [by |-> "none"]

\* the source row of the file whose name is "x", and a configuration
ShardInit ==
    /\ CoreIdle
    /\ IdleBut({"sha", "sh"})
    /\ sha \in [HashInputs -> Digests]
    /\ \E bits \in ShardBits, key \in {k \in HashInputs : Basename(k) = <<"x">>} :
           sh = [pc |-> "shards", shard_bits |-> bits, s3_key |-> key, name |-> Basename(key),
                 marker |-> NoShard, packer |-> NoShard, retriever |-> NoShard]

\* AdvancedFileMarker._mark_single_entry (FileMarkerWorker.run_once does the same)
MarkSingleEntry ==
    /\ sh.pc = "shards"
    /\ sh.marker.by = "none"
    /\ LET des_hash == HexDigest(sh.name)
       IN sh' = [sh EXCEPT !.marker = [by |-> "marker", name |-> sh.name,
                                       shard |-> HexByte(des_hash)]]
    /\ UNCHANGED <<coreVars, shardRest, sha>>

\* SourceDatabaseConnector._compute_shard_id, no shard_key_column configured;
\* the file goes into the container under the last part of its key
ComputeShardId ==
    /\ sh.pc = "shards"
    /\ sh.packer.by = "none"
    /\ sh' = [sh EXCEPT !.packer = [by |-> "packer", name |-> Basename(sh.s3_key),
                                    shard |-> consistent_hash(sh.s3_key, sh.shard_bits)]]
    /\ UNCHANGED <<coreVars, shardRest, sha>>

\* FileHandler.compute_shard_id, called by get_container_key(file_name)
RetrieverShardId ==
    /\ sh.pc = "shards"
    /\ sh.retriever.by = "none"
    /\ sh' = [sh EXCEPT !.retriever = [by |-> "retriever", name |-> sh.name,
                                       shard |-> consistent_hash(sh.name, sh.shard_bits)]]
    /\ UNCHANGED <<coreVars, shardRest, sha>>

ShardNext == MarkSingleEntry \/ ComputeShardId \/ RetrieverShardId

SpecShard == ShardInit /\ [][ShardNext]_vars

(* C15: one shard hash. The shard id the marker assigns to a name, the     *)
(* shard id under which the packer claims and stores the file of that name *)
(* and the shard id the retriever computes for it are each the top         *)
(* shard_bits bits of SHA-256(name).                                       *)
C15_SingleShardHash ==
    \A c \in {sh.marker, sh.packer, sh.retriever} :
        c.by # "none" =>
            c.shard = ((sha[c.name][1] * 256 + sha[c.name][2]) \div (2 ^ (16 - sh.shard_bits)))

----------------------------------------------------------------------------
(* Name generators. Each SnowflakeNameGenerator has its own lock and its   *)
(* own (last_ms, seq): a next_name call is one step. A call reads the      *)
(* clock once, and once more when it leaves the wait for the next          *)
(* millisecond. The day has MsPerDay milliseconds. A generator starts      *)
(* fresh, or as 255 calls within millisecond 0 left it.                    *)

MaxMs == 3
MsPerDay == 3
MaxCalls == 2
SEQ_MASK == 255

Gens == {"g1", "g2"}

NodeIds == {1, 2}

WrapBits == {1, 2, 16}

NoName == [prefix |-> "none"]

\* (t_low << 16) | ((node_id & 0xFF) << 8) | (seq & 0xFF), 48 bits, as 6 big-endian bytes
ComposeF_NoNode(t_low, node_id, seq) ==
    <<(t_low \div (2 ^ 24)) % 256, (t_low \div (2 ^ 16)) % 256, (t_low \div 256) % 256,
      t_low % 256, 0, seq % 256>>

ComposeF(t_low, node_id, seq) ==
    <<(t_low \div (2 ^ 24)) % 256, (t_low \div (2 ^ 16)) % 256, (t_low \div 256) % 256,
      t_low % 256, node_id % 256, seq % 256>>

\* SnowflakeNameGenerator._checksum_byte
ChecksumByte(f) == (f[1] + f[2] + f[3] + f[4] + f[5] + f[6]) % 256

\* f"{f:012X}", f"{cc:02X}": two hexadecimal digits a byte
HexOf(bytes) == [i \in 1..(2 * Len(bytes)) |->
                    IF i % 2 = 1 THEN bytes[(i + 1) \div 2] \div 16 ELSE bytes[i \div 2] % 16]

\* SnowflakeNameGenerator._next_f48: the state and the F it returns. `r` is
\* the first clock reading, `r2` the reading that ends the wait after seq wrapped.
NextF48(st, cfg, r, r2) ==
    LET now_ms == IF r < st.last_ms THEN st.last_ms ELSE r
        same == now_ms = st.last_ms
        seq == IF same THEN (st.seq + 1) % (SEQ_MASK + 1) ELSE 0
        now2 == IF same /\ seq = 0 THEN r2 ELSE now_ms
        t_low == now2 % (2 ^ cfg.wrap_bits)
    IN [st |-> [last_ms |-> now2, seq |-> seq],
        waited |-> same /\ seq = 0,
        f |-> ComposeF(t_low, cfg.node_id, seq)]

\* SnowflakeNameGenerator.next_name, day = date.today()
NextName(st, cfg, r, r2) ==
    LET n == NextF48(st, cfg, r, r2)
    IN [st |-> n.st, waited |-> n.waited,
        name |-> [prefix |-> cfg.prefix, day |-> r \div MsPerDay, f_hex |-> HexOf(n.f),
                  cc_hex |-> HexOf(<<ChecksumByte(n.f)>>)]]

\* a < b for two names of one prefix, compared as strings
NameLess(a, b) ==
    LET x == <<a.day>> \o a.f_hex \o a.cc_hex
        y == <<b.day>> \o b.f_hex \o b.cc_hex
    IN \E i \in DOMAIN x : x[i] < y[i] /\ \A j \in 1..(i - 1) : x[j] = y[j]

NamesInit ==
    /\ CoreIdle
    /\ IdleBut({"gen"})
    /\ \E w \in WrapBits, ids \in [Gens -> NodeIds], used \in SUBSET Gens :
           gen = [pc |-> "names",
                  cfg |-> [g \in Gens |-> [node_id |-> ids[g], prefix |-> "DES", wrap_bits |-> w]],
                  st |-> [g \in Gens |-> IF g \in used THEN [last_ms |-> 0, seq |-> SEQ_MASK - 1]
                                         ELSE [last_ms |-> -1, seq |-> 0]],
                  calls |-> [g \in Gens |-> 0],
                  read |-> [g \in Gens |-> 0],
                  mono |-> [g \in Gens |-> TRUE],
                  prev |-> [g \in Gens |-> NoName],
                  last |-> [g \in Gens |-> NoName],
                  emitted |-> [g \in Gens |-> {}]]

\* one next_name() call on generator g
GenNextName(g, r, r2) ==
    /\ gen.pc = "names"
    /\ gen.calls[g] < MaxCalls
    /\ LET n == NextName(gen.st[g], gen.cfg[g], r, r2)
       IN /\ IF n.waited THEN r2 > gen.st[g].last_ms /\ r2 >= r ELSE r2 = r
          /\ gen' = [gen EXCEPT !.st[g] = n.st,
                                !.calls[g] = @ + 1,
                                !.read[g] = r2,
                                !.mono[g] = @ /\ gen.read[g] <= r,
                                !.prev[g] = gen.last[g],
                                !.last[g] = n.name,
                                !.emitted[g] = @ \cup {n.name}]
    /\ UNCHANGED <<coreVars, namesRest>>

NamesNext == \E g \in Gens, r \in 0..MaxMs, r2 \in 0..MaxMs : GenNextName(g, r, r2)

SpecNames == NamesInit /\ [][NamesNext]_vars

(* C16: two generators configured with distinct node_id values never emit *)
(* the same name, whatever the order of their calls and whatever their     *)
(* clocks read.                                                            *)
C16_NodesNeverCollide ==
    \A g, h \in Gens :
        gen.cfg[g].node_id # gen.cfg[h].node_id => gen.emitted[g] \cap gen.emitted[h] = {}

\* two generators of distinct node_id emitted names that differ in the node byte only
C16_Witness ==
    \E g, h \in Gens :
        /\ gen.cfg[g].node_id # gen.cfg[h].node_id
        /\ \E a \in gen.emitted[g], b \in gen.emitted[h] :
               /\ a.day = b.day
               /\ \A i \in DOMAIN a.f_hex : i \notin {9, 10} => a.f_hex[i] = b.f_hex[i]

(* C17: on a clock that never goes back, each name a generator emits is   *)
(* strictly greater than the name it emitted before, for every wrap_bits.  *)
C17_StrictlyIncreasing ==
    \A g \in Gens :
        gen.mono[g] /\ gen.prev[g].prefix # "none" => NameLess(gen.prev[g], gen.last[g])

----------------------------------------------------------------------------
(* Marker: one AdvancedFileMarker, dead-letter queue enabled, no shutdown  *)
(* requested, running mark_batch_with_retry again and again. A batch is    *)
(* one transaction: the SELECT, one step for each _mark_single_entry       *)
(* attempt (which succeeds, fails with a transient error or fails with a   *)
(* permanent one), and the commit. The INSERT into the dead-letter table   *)
(* succeeds. A name is the number of next_name() calls made so far.        *)

NumEntries == 2
MarkerBatchSize == 1
MaxRetries == 2
MaxRuns == 3

EntryIds == 1..NumEntries

\* a CatalogEntry no marker has touched; `old` is created_at <= cutoff
CatalogEntry(old) ==
    [old |-> old, des_status |-> "null", des_name |-> 0, des_hash |-> 0, des_shard |-> 0,
     retry_count |-> 0, last_error |-> "null"]

\* the WHERE clause of AdvancedFileMarker._select_candidates
IsCandidate(e) == e.old /\ (e.des_status = "null" \/ e.des_status = "retry" \/ e.des_name = 0)

\* .order_by(CatalogEntry.id).limit(batch_size)
RECURSIVE FirstIds(_, _, _)
FirstIds(ids, n, acc) ==
    IF ids = {} \/ n = 0 THEN acc
    ELSE LET i == CHOOSE x \in ids : \A y \in ids : x <= y
         IN FirstIds(ids \ {i}, n - 1, Append(acc, i))

SelectCandidates(rows) == FirstIds({i \in EntryIds : IsCandidate(rows[i])}, MarkerBatchSize, << >>)

\* the row has its name, hash and shard, or was marked failed
Settled(e) == (e.des_name # 0 /\ e.des_hash # 0 /\ e.des_shard # 0) \/ e.des_status = "failed"

\* AdvancedFileMarker._mark_single_entry: the entry after the attempt
MarkedEntry(e, name, outcome) ==
    IF outcome = "ok"
    THEN [e EXCEPT !.des_name = name, !.des_hash = name, !.des_shard = name,
                   !.des_status = "marked", !.retry_count = 0, !.last_error = "null"]
    ELSE [e EXCEPT !.last_error = outcome, !.retry_count = @ + 1,
                   !.des_status = IF outcome = "transient" THEN "retry" ELSE "marking"]

\* AdvancedFileMarker._send_to_dlq
DlqRow(id) == [catalog_entry_id |-> id, retry_count |-> MaxRetries]

MarkerInit ==
    /\ CoreIdle
    /\ IdleBut({"mk"})
    /\ \E old \in [EntryIds -> BOOLEAN] :
           mk = [pc |-> "idle", rows |-> [i \in EntryIds |-> CatalogEntry(old[i])], dlq |-> << >>,
                 todo |-> << >>, attempt |-> 0, names |-> 0, runs |-> 0,
                 settled |-> {}, rewritten |-> {}, exhausted |-> {}]

\* mark_batch_with_retry up to the loop over the entries
MarkBatchSelect ==
    /\ mk.pc = "idle"
    /\ mk.runs < MaxRuns
    /\ LET entries == SelectCandidates(mk.rows)
       IN mk' = [mk EXCEPT !.pc = IF entries = << >> THEN "idle" ELSE "batch",
                           !.runs = @ + 1,
                           !.todo = entries,
                           !.attempt = 0,
                           !.settled = {i \in EntryIds : Settled(mk.rows[i])},
                           !.exhausted = @ \ {entries[i] : i \in DOMAIN entries}]
    /\ UNCHANGED <<coreVars, markerRest>>

\* one pass of `for attempt in range(max_retries)` for the entry at the head of the batch
MarkAttempt(outcome) ==
    /\ mk.pc = "batch"
    /\ mk.todo # << >>
    /\ LET id == Head(mk.todo)
           name == mk.names + 1
           e == MarkedEntry(mk.rows[id], name, outcome)
           last == mk.attempt = MaxRetries - 1
       IN mk' = [mk EXCEPT
                    !.names = IF outcome = "ok" THEN name ELSE @,
                    !.rows[id] = IF outcome = "ok" THEN e
                                 ELSE IF outcome = "transient" THEN [e EXCEPT !.des_status = "retry"]
                                 ELSE [e EXCEPT !.des_status = "failed"],
                    !.dlq = IF outcome = "permanent" THEN Append(@, DlqRow(id)) ELSE @,
                    !.attempt = IF outcome = "transient" /\ ~last THEN @ + 1 ELSE 0,
                    !.todo = IF outcome = "transient" /\ ~last THEN @ ELSE Tail(@),
                    !.rewritten = IF id \in mk.settled THEN @ \cup {id} ELSE @,
                    !.exhausted = IF outcome = "transient" /\ last THEN @ \cup {id} ELSE @]
    /\ UNCHANGED <<coreVars, markerRest>>

\* the end of `async with session.begin()`
MarkBatchCommit ==
    /\ mk.pc = "batch"
    /\ mk.todo = << >>
    /\ mk' = [mk EXCEPT !.pc = "idle"]
    /\ UNCHANGED <<coreVars, markerRest>>

MarkerNext ==
    \/ MarkBatchSelect
    \/ \E outcome \in {"ok", "transient", "permanent"} : MarkAttempt(outcome)
    \/ MarkBatchCommit

SpecMarker == MarkerInit /\ [][MarkerNext]_vars

(* C18: marker idempotence. A row that has its name, hash and shard, or    *)
(* that was marked failed, when a run of the marker begins is not written  *)
(* by that run.                                                            *)
C18_MarkerIdempotent == mk.rewritten = {}

(* C19: a row whose marking failed with a transient error in each of the   *)
(* max_retries attempts of a run is in the dead-letter table and has       *)
(* status failed.                                                          *)
C19_ExhaustedToDeadLetter ==
    \A id \in mk.exhausted :
        /\ mk.rows[id].des_status = "failed"
        /\ \E i \in DOMAIN mk.dlq : mk.dlq[i].catalog_entry_id = id

----------------------------------------------------------------------------
(* Router: one RoutingTable with the hash_byte strategy, and the requests  *)
(* GET /files/{file_name} handled one after the other. A request is one    *)
(* step: the target is computed, then the primary and the fallbacks are    *)
(* tried in turn, the first `fails` of them failing. time.monotonic() is   *)
(* rt.clock. Of the endpoints a request was sent to, the first is kept.    *)

NumEndpoints == 2
CircuitBreakerThreshold == 2
CircuitBreakerTimeout == 1
MaxClock == CircuitBreakerTimeout + 2

Endpoints == 0..(NumEndpoints - 1)

\* the names requested, and the strings whose hash a request may carry
RouterNames == {<<"x">>}

Hashed == {<<"x">>, <<"y">>}

\* the query parameters `hash` and `hash_byte` of a request
Hints ==
    {[kind |-> "none"]}
        \cup {[kind |-> "hash", of |-> n] : n \in Hashed}
        \cup {[kind |-> "hash_byte", value |-> 1]}

RetrieverEndpoint == [is_healthy |-> TRUE, failure_count |-> 0, last_failure_time |-> NoTime]

\* service._hash_byte
HashByte(file_name, hint) ==
    IF hint.kind = "hash_byte" THEN hint.value
    ELSE IF hint.kind = "hash" THEN HexByte(HexDigest(hint.of))
    ELSE HexByte(HexDigest(file_name))

\* RoutingTable._is_healthy: the endpoint as the call leaves it
Refreshed(ep, t) ==
    IF ep.is_healthy \/ ep.last_failure_time = NoTime THEN ep
    ELSE IF t - ep.last_failure_time > CircuitBreakerTimeout
         THEN [ep EXCEPT !.is_healthy = TRUE, !.failure_count = 0]
         ELSE ep

\* idx = target_byte % len(self.retrievers)
PrimaryIndex_Next(target_byte, n) == (target_byte + 1) % n

PrimaryIndex(target_byte, n) == target_byte % n

\* mutant: the primary is returned whatever its health
TargetRetriever_NoFallback(table, target_byte) ==
    LET healthy == {i \in Endpoints : table[i].is_healthy}
        primary == PrimaryIndex(target_byte, NumEndpoints)
    IN IF healthy = {} THEN NumEndpoints ELSE primary

\* RoutingTable.get_target_retriever on a table whose endpoints were refreshed;
\* NumEndpoints stands for "No healthy retrievers available"
TargetRetriever(table, target_byte) ==
    LET healthy == {i \in Endpoints : table[i].is_healthy}
        primary == PrimaryIndex(target_byte, NumEndpoints)
    IN IF healthy = {} THEN NumEndpoints
       ELSE IF table[primary].is_healthy THEN primary
       ELSE CHOOSE i \in healthy : \A j \in healthy : i <= j

\* RoutingTable.mark_failure
MarkFailure(ep, t) ==
    [ep EXCEPT !.failure_count = @ + 1, !.last_failure_time = t,
               !.is_healthy = IF ep.failure_count + 1 >= CircuitBreakerThreshold THEN FALSE ELSE @]

\* RoutingTable.mark_success
MarkSuccess(ep) == [ep EXCEPT !.failure_count = 0, !.is_healthy = TRUE, !.last_failure_time = NoTime]

\* [primary] + ROUTING_TABLE.get_fallback_retrievers(exclude=primary.id)
RECURSIVE Ascending(_)
Ascending(ids) ==
    IF ids = {} THEN << >>
    ELSE LET i == CHOOSE x \in ids : \A y \in ids : x <= y IN <<i>> \o Ascending(ids \ {i})

Attempted(table, primary) ==
    <<primary>> \o Ascending({i \in Endpoints : table[i].is_healthy /\ i # primary})

RouterShas ==
    {f \in [HashInputs -> Digests] : f[<<"d", "x">>] = <<18, 0>> /\ \A n \in Hashed : f[n][2] = 0}

RouterInit ==
    /\ CoreIdle
    /\ IdleBut({"rt", "sha"})
    /\ sha \in RouterShas
    /\ rt = [pc |-> "router", table |-> [i \in Endpoints |-> RetrieverEndpoint], clock |-> 1,
             last |-> [op |-> "none"]]

\* service._route
Route(file_name, hint, fails) ==
    /\ rt.pc = "router"
    /\ LET target_byte == HashByte(file_name, hint)
           table == [i \in Endpoints |-> Refreshed(rt.table[i], rt.clock)]
           primary == TargetRetriever(table, target_byte)
           retrievers == IF primary = NumEndpoints THEN << >> ELSE Attempted(table, primary)
           tried == IF fails < Len(retrievers) THEN fails + 1 ELSE Len(retrievers)
           after == [i \in Endpoints |->
                        IF \E k \in 1..tried : retrievers[k] = i
                        THEN IF fails < Len(retrievers) /\ retrievers[fails + 1] = i
                             THEN MarkSuccess(table[i])
                             ELSE MarkFailure(table[i], rt.clock)
                        ELSE table[i]]
       IN /\ fails <= Len(retrievers)
          /\ rt' = [rt EXCEPT
                       !.table = after,
                       !.last = [op |-> "route", name |-> file_name, hint |-> hint,
                                 all_healthy |-> \A i \in Endpoints : rt.table[i].is_healthy,
                                 failures_before |-> \E i \in Endpoints : rt.table[i].failure_count > 0,
                                 sent |-> SubSeq(retrievers, 1, IF tried = 0 THEN 0 ELSE 1)]]
    /\ UNCHANGED <<coreVars, routerRest, sha>>

\* time passes
RouterTick ==
    /\ rt.pc = "router"
    /\ rt.clock < MaxClock
    /\ rt' = [rt EXCEPT !.clock = @ + 1]
    /\ UNCHANGED <<coreVars, routerRest, sha>>

RouterNext ==
    \/ \E file_name \in RouterNames, hint \in Hints, fails \in 0..NumEndpoints :
           Route(file_name, hint, fails)
    \/ RouterTick

SpecRouter == RouterInit /\ [][RouterNext]_vars

(* C20, as claimed: with every endpoint healthy, any request for name n    *)
(* is sent first to endpoint first_byte(SHA256(n)) mod N.                  *)
C20_AnyRequest ==
    (rt.last.op = "route" /\ rt.last.all_healthy)
        => (rt.last.sent # << >> /\ rt.last.sent[1] = sha[rt.last.name][1] % NumEndpoints)

(* C20, amended: with every endpoint healthy, a request for name n that    *)
(* carries no hash_byte parameter and no hash parameter other than the     *)
(* hash of n is sent first to endpoint first_byte(SHA256(n)) mod N,        *)
(* whatever requests came before.                                          *)
C20_RouterCorrect ==
    (/\ rt.last.op = "route"
     /\ rt.last.all_healthy
     /\ rt.last.hint.kind = "none" \/ (rt.last.hint.kind = "hash" /\ rt.last.hint.of = rt.last.name))
        => (rt.last.sent # << >> /\ rt.last.sent[1] = sha[rt.last.name][1] % NumEndpoints)

\* a request without parameters, after earlier failures, sent to an endpoint other than the first
C20_Witness ==
    /\ rt.last.op = "route"
    /\ rt.last.all_healthy
    /\ rt.last.failures_before
    /\ rt.last.hint.kind = "none"
    /\ rt.last.sent # << >>
    /\ rt.last.sent[1] = sha[rt.last.name][1] % NumEndpoints
    /\ rt.last.sent[1] # 0

----------------------------------------------------------------------------
(* Router under concurrent requests. The handlers are coroutines on one     *)
(* event loop: _route runs without interruption up to `await               *)
(* _proxy_request`, and again from the upstream's answer to the next        *)
(* await or to its return. A request in flight keeps the list `retrievers` *)
(* it computed on arrival.                                                  *)

NumRequests == 2
RouterMaxRetries == 1

Requests == 1..NumRequests

\* what the upstream does with one proxied request
Upstreams == {"200", "500", "exception"}

NoRequest ==
    [state |-> "idle", retrievers |-> << >>, pos |-> 0, attempts |-> 0, retried_on |-> {},
     refused |-> FALSE, status |-> "none"]

NoEvent == [kind |-> "none", ep |-> NumEndpoints]

ProxyInit ==
    /\ CoreIdle
    /\ IdleBut({"rt"})
    /\ rt = [pc |-> "proxy", table |-> [i \in Endpoints |-> RetrieverEndpoint], clock |-> 1,
             reqs |-> [r \in Requests |-> NoRequest], ev |-> NoEvent]

\* _route up to its first await: get_target_retriever raises RuntimeError when
\* no endpoint is healthy, and nothing in _route or in the application catches
\* it, so the framework answers 500
ProxyArrive(r, hash_byte) ==
    /\ rt.pc = "proxy"
    /\ rt.reqs[r].state = "idle"
    /\ LET target_byte == HashByte(<<"x">>, [kind |-> "hash_byte", value |-> hash_byte])
           table == [i \in Endpoints |-> Refreshed(rt.table[i], rt.clock)]
           primary == TargetRetriever(table, target_byte)
       IN rt' = [rt EXCEPT
                    !.table = table,
                    !.ev = NoEvent,
                    !.reqs[r] =
                        IF primary = NumEndpoints
                        THEN [NoRequest EXCEPT !.state = "done", !.refused = TRUE, !.status = "500"]
                        ELSE [NoRequest EXCEPT !.state = "flight", !.pos = 1, !.attempts = 1,
                                               !.retrievers = Attempted(table, primary)]]
    /\ UNCHANGED <<coreVars, routerRest, sha>>

\* _route from the answer of retrievers[pos] to the next await or the return
ProxyAnswer(r, upstream) ==
    /\ rt.pc = "proxy"
    /\ rt.reqs[r].state = "flight"
    /\ LET q == rt.reqs[r]
           i == q.retrievers[q.pos]
           marked == [rt.table EXCEPT ![i] = IF upstream = "200" THEN MarkSuccess(@)
                                             ELSE MarkFailure(@, rt.clock)]
       IN rt' = [rt EXCEPT
                    \* ROUTER_HEALTHY.set(len(get_fallback_retrievers()) + 1) looks at every endpoint
                    !.table = IF upstream = "200"
                              THEN [j \in Endpoints |-> Refreshed(marked[j], rt.clock)]
                              ELSE marked,
                    !.ev = [kind |-> IF upstream = "200" THEN "success" ELSE "failure", ep |-> i],
                    !.reqs[r] =
                        IF upstream = "200" THEN [q EXCEPT !.state = "done", !.status = "200"]
                        ELSE IF q.pos < Len(q.retrievers)
                             THEN [q EXCEPT !.pos = @ + 1, !.attempts = @ + 1,
                                            !.retried_on = @ \cup {upstream}]
                             ELSE [q EXCEPT !.state = "done", !.status = "503"]]
    /\ UNCHANGED <<coreVars, routerRest, sha>>

\* the response has been sent; the next request of this client may come
ProxyDone(r) ==
    /\ rt.pc = "proxy"
    /\ rt.reqs[r].state = "done"
    /\ rt' = [rt EXCEPT !.reqs[r] = NoRequest, !.ev = NoEvent]
    /\ UNCHANGED <<coreVars, routerRest, sha>>

ProxyTick ==
    /\ rt.pc = "proxy"
    /\ rt.clock < MaxClock
    /\ rt' = [rt EXCEPT !.clock = @ + 1, !.ev = NoEvent]
    /\ UNCHANGED <<coreVars, routerRest, sha>>

ProxyNext ==
    \/ \E r \in Requests, hash_byte \in Endpoints : ProxyArrive(r, hash_byte)
    \/ \E r \in Requests, upstream \in Upstreams : ProxyAnswer(r, upstream)
    \/ \E r \in Requests : ProxyDone(r)
    \/ ProxyTick

SpecProxy == ProxyInit /\ [][ProxyNext]_vars

(* C21: the circuit breaker of each endpoint. A failure adds one to        *)
(* failure_count; the endpoint turns unhealthy exactly in the step in      *)
(* which failure_count reaches the threshold; an unhealthy endpoint turns  *)
(* healthy only when more than cb_timeout has passed since its last        *)
(* failure; a success sets failure_count to 0 and clears last_failure_time.*)
C21_CircuitBreaker ==
    [][\A i \in Endpoints :
          LET old == rt.table[i]
              new == rt'.table[i]
          IN /\ (rt'.ev.kind = "failure" /\ rt'.ev.ep = i)
                    => new.failure_count = old.failure_count + 1
             /\ (old.is_healthy /\ ~new.is_healthy)
                    <=> (old.failure_count < CircuitBreakerThreshold
                            /\ new.failure_count >= CircuitBreakerThreshold)
             /\ (~old.is_healthy /\ new.is_healthy)
                    => (old.last_failure_time # NoTime
                            /\ rt'.clock - old.last_failure_time > CircuitBreakerTimeout)
             /\ (rt'.ev.kind = "success" /\ rt'.ev.ep = i)
                    => (new.failure_count = 0 /\ new.last_failure_time = NoTime)]_vars

(* C22: a request that arrives when no endpoint is healthy, none being due *)
(* for re-admission, is answered 503.                                      *)
C22_AllUnhealthy503 ==
    \A r \in Requests :
        (rt.pc = "proxy" /\ rt.reqs[r].state = "done" /\ rt.reqs[r].refused)
            => rt.reqs[r].status = "503"

(* C23: a request goes on to another endpoint only after a 5xx response,   *)
(* and makes at most max_retries upstream attempts.                        *)
C23_RetriesBounded ==
    \A r \in Requests :
        rt.pc = "proxy"
            => (rt.reqs[r].retried_on \subseteq {"500"} /\ rt.reqs[r].attempts <= RouterMaxRetries)

----------------------------------------------------------------------------
(* Index cache: one InMemoryIndexCache. Every method runs under self._lock, *)
(* so a call is one step. time.time() is lru.clock; None is NoTime for a   *)
(* ttl and an expiry, and 0 for max_size (`if self.max_size` takes both    *)
(* the same way). lru.older is history: <<a, b>> is in it when a and b are *)
(* stored and the last use of a, by a set or a get that hit, is before the *)
(* last use of b.                                                           *)

MaxCacheSize == 2
MaxCacheClock == 2

CacheKeys == {"k1", "k2", "k3"}
CacheEntries == {"e1"}
CacheTtls == {NoTime, 0, 1}

NoEntry == [entries |-> "none", expiry |-> NoTime]

Stored(cache) == {k \in CacheKeys : cache[k].entries # "none"}

\* self._access_order.remove(key)
RECURSIVE Remove(_, _)
Remove(order, key) ==
    IF order = << >> THEN << >>
    ELSE IF Head(order) = key THEN Tail(order)
    ELSE <<Head(order)>> \o Remove(Tail(order), key)

InOrder(order, key) == \E i \in DOMAIN order : order[i] = key

\* "Update LRU order", with the update left out for a key already in the list
Touch_Keep(order, key) == IF InOrder(order, key) THEN order ELSE Append(order, key)

\* "Update LRU order": remove the key if it is in the list, then append it
Touch(order, key) == Append(IF InOrder(order, key) THEN Remove(order, key) ELSE order, key)

\* history: key is used now, among the keys `stored` after the call
Used(older, stored, key) ==
    {p \in older : p[1] \in stored /\ p[2] \in stored /\ p[1] # key /\ p[2] # key}
        \cup {<<k, key>> : k \in stored \ {key}}

\* history: the stored key whose last use is the oldest
Oldest(older, stored) ==
    {k \in stored : \A x \in stored \ {k} : <<k, x>> \in older}

CacheInit ==
    /\ CoreIdle
    /\ IdleBut({"lru"})
    /\ \E max_size \in 0..MaxCacheSize, default_ttl \in {NoTime, 1} :
           lru = [pc |-> "cache", max_size |-> max_size, default_ttl |-> default_ttl,
                  cache |-> [k \in CacheKeys |-> NoEntry], access_order |-> << >>,
                  clock |-> 0, older |-> {},
                  last |-> [op |-> "none", key |-> "none", before |-> {}, oldest |-> {},
                            result |-> "none"]]

\* InMemoryIndexCache.get
CacheGet(key) ==
    /\ lru.pc = "cache"
    /\ LET c == lru.cache[key]
           miss == c.entries = "none"
           expired == ~miss /\ c.expiry # NoTime /\ lru.clock > c.expiry
           cache == IF expired THEN [lru.cache EXCEPT ![key] = NoEntry] ELSE lru.cache
       IN lru' = [lru EXCEPT
                     !.cache = cache,
                     !.access_order = IF miss THEN @
                                      ELSE IF expired
                                           THEN (IF InOrder(@, key) THEN Remove(@, key) ELSE @)
                                           ELSE Touch(@, key),
                     !.older = IF miss THEN @
                               ELSE IF expired THEN {p \in @ : p[1] # key /\ p[2] # key}
                               ELSE Used(@, Stored(cache), key),
                     !.last = [op |-> "get", key |-> key, before |-> Stored(lru.cache),
                               oldest |-> Oldest(lru.older, Stored(lru.cache)),
                               result |-> IF miss \/ expired THEN "none" ELSE c.entries]]
    /\ UNCHANGED <<coreVars, cacheRest>>

\* InMemoryIndexCache.set
CacheSet(key, entries, ttl) ==
    /\ lru.pc = "cache"
    /\ LET effective_ttl == IF ttl # NoTime THEN ttl ELSE lru.default_ttl
           expiry == IF effective_ttl # NoTime /\ effective_ttl # 0
                     THEN lru.clock + effective_ttl ELSE NoTime
           evict == /\ lru.max_size # 0
                    /\ Cardinality(Stored(lru.cache)) >= lru.max_size
                    /\ lru.cache[key].entries = "none"
           \* self._access_order.pop(0); del self._cache[oldest_key]
           kept == IF evict THEN [lru.cache EXCEPT ![Head(lru.access_order)] = NoEntry]
                   ELSE lru.cache
           order == IF evict THEN Tail(lru.access_order) ELSE lru.access_order
           cache == [kept EXCEPT ![key] = [entries |-> entries, expiry |-> expiry]]
       IN lru' = [lru EXCEPT
                     !.cache = cache,
                     !.access_order = Touch(order, key),
                     !.older = Used(@, Stored(cache), key),
                     !.last = [op |-> "set", key |-> key, before |-> Stored(lru.cache),
                               oldest |-> Oldest(lru.older, Stored(lru.cache)),
                               result |-> "none"]]
    /\ UNCHANGED <<coreVars, cacheRest>>

\* InMemoryIndexCache.delete
CacheDelete(key) ==
    /\ lru.pc = "cache"
    /\ lru' = [lru EXCEPT
                  !.cache[key] = NoEntry,
                  !.access_order = IF InOrder(@, key) THEN Remove(@, key) ELSE @,
                  !.older = {p \in @ : p[1] # key /\ p[2] # key},
                  !.last = [op |-> "delete", key |-> key, before |-> Stored(lru.cache),
                            oldest |-> Oldest(lru.older, Stored(lru.cache)), result |-> "none"]]
    /\ UNCHANGED <<coreVars, cacheRest>>

\* InMemoryIndexCache.clear
CacheClear ==
    /\ lru.pc = "cache"
    /\ lru' = [lru EXCEPT
                  !.cache = [k \in CacheKeys |-> NoEntry],
                  !.access_order = << >>,
                  !.older = {},
                  !.last = [op |-> "clear", key |-> "none", before |-> Stored(lru.cache),
                            oldest |-> Oldest(lru.older, Stored(lru.cache)), result |-> "none"]]
    /\ UNCHANGED <<coreVars, cacheRest>>

CacheTick ==
    /\ lru.pc = "cache"
    /\ lru.clock < MaxCacheClock
    /\ lru' = [lru EXCEPT !.clock = @ + 1]
    /\ UNCHANGED <<coreVars, cacheRest>>

CacheNext ==
    \/ \E key \in CacheKeys : CacheGet(key)
    \/ \E key \in CacheKeys, entries \in CacheEntries, ttl \in CacheTtls : CacheSet(key, entries, ttl)
    \/ \E key \in CacheKeys : CacheDelete(key)
    \/ CacheClear
    \/ CacheTick

SpecCache == CacheInit /\ [][CacheNext]_vars

\* the keys a call removed from the cache
Evicted == lru.last.before \ Stored(lru.cache)

(* C24: with max_size > 0 the cache never stores more than max_size keys;  *)
(* a set of a key that is not stored, in a full cache, removes exactly the *)
(* stored key whose last use (a set or a get that hit) is the oldest; a    *)
(* set of a stored key removes nothing.                                    *)
C24_LruBound ==
    (lru.pc = "cache" /\ lru.max_size > 0) =>
        /\ Cardinality(Stored(lru.cache)) <= lru.max_size
        /\ (lru.last.op = "set" /\ lru.last.key \notin lru.last.before
                /\ Cardinality(lru.last.before) = lru.max_size)
               => (Evicted = lru.last.oldest /\ Cardinality(Evicted) = 1)
        /\ (lru.last.op = "set" /\ lru.last.key \in lru.last.before) => Evicted = {}

\* the set of a third key in a full cache of two keys removed the one used least
\* recently and kept the other, which has an expiry
C24_Witness ==
    /\ lru.pc = "cache"
    /\ lru.max_size = 2
    /\ lru.last.op = "set"
    /\ lru.last.key \notin lru.last.before
    /\ Cardinality(lru.last.before) = 2
    /\ lru.access_order = <<"k1", "k3">>
    /\ Evicted = {"k2"}
    /\ lru.cache["k1"].expiry # NoTime

----------------------------------------------------------------------------
(* The packer beside the recovery manager: one live packer whose steps     *)
(* interleave with the sweeps, each sweep awaited as one call               *)

\* recover_stale_claims() awaited while the packer runs
LiveRecoverStaleClaims ==
    /\ source' = RecoverStaleClaims(source, now)
    /\ UNCHANGED <<laterVars, now, today, locks, containers, store, clientVars, packerVars,
                   packerHist, claimVars, sweepVars>>

\* cleanup_partial_containers() awaited while the packer runs
LiveCleanupPartialContainers ==
    /\ LET r == CleanupPartialContainers(containers, store, now) IN
        /\ containers' = r.containers
        /\ store' = r.store
    /\ UNCHANGED <<laterVars, now, today, locks, source, clientVars, packerVars, packerHist,
                   claimVars, sweepVars>>

\* verify_container_integrity() awaited while the packer runs
LiveVerifyContainerIntegrity ==
    /\ LET r == VerifyContainerIntegrity(containers, store, now) IN
        /\ containers' = r.containers
        /\ store' = r.store
    /\ UNCHANGED <<laterVars, now, today, locks, source, clientVars, packerVars, packerHist,
                   claimVars, sweepVars>>

LiveNext ==
    \/ \E s \in PackerShards : ProcessShard("A", s)
    \/ \E s \in PackerShards : EnsureWriter("A", s)
    \/ \E s \in PackerShards : Upload("A", s)
    \/ \E s \in PackerShards : FinalizeRecord("A", s)
    \/ \E s \in PackerShards : CreateWriter("A", s)
    \/ \E s \in PackerShards : ClaimFiles("A", s)
    \/ \E s \in PackerShards : AddFiles("A", s)
    \/ \E s \in PackerShards : MaybeCheckpoint("A", s)
    \/ \E s \in PackerShards : Heartbeat("A", s)
    \/ LiveRecoverStaleClaims
    \/ LiveCleanupPartialContainers
    \/ LiveVerifyContainerIntegrity
    \/ Tick
    \/ NextDay

SpecLive == Init /\ [][LiveNext]_vars

(* C25: recovery leaves alone a container that is being written under an   *)
(* effective lease: while a running packer holds an open writer and the    *)
(* lease of its shard, the writer's container row is still in status       *)
(* writing, whatever sweeps have run in between.                            *)
C25_SweepSparesLiveContainer ==
    \A p \in Packers, s \in PackerShards :
        (/\ writers[p][s] # NoWriter
         /\ pc[p] \notin {"crashed", "stopped"}
         /\ HoldsLease(locks, s, p, now))
            => containers[writers[p][s].container_id].status = "writing"

\* The containers a file has been appended to: open writers and finalized ones
HoldersOf(f) ==
    {writers[ps[1]][ps[2]].container_id :
        ps \in {x \in Packers \X PackerShards : f \in writers[x[1]][x[2]].files}}
        \cup {x.cid : x \in {y \in finalized : f \in y.files}}

(* C26: each source file is packed at most once: no writer has appended    *)
(* the same file twice (its count of appended files equals the number of   *)
(* distinct files in it) and no file is in two containers.                  *)
C26_PackedAtMostOnce ==
    /\ \A p \in Packers, s \in PackerShards :
           writers[p][s].file_count = Cardinality(writers[p][s].files)
    /\ \A f \in Files : Cardinality(HoldersOf(f)) <= 1

----------------------------------------------------------------------------
(* After a takeover: packer A opened the day-0 container of shard 0 and is *)
(* about to claim files; its lease lapsed without a renew and packer B has *)
(* just acquired the shard. The packer model reaches this state at time    *)
(* LockTtl + 1; from here the clock runs on for two more lease periods.    *)

MaxLate == 3 * LockTtl

TakeoverInit ==
    /\ now = LockTtl + 1
    /\ today = 0
    /\ locks = {[shard_id |-> 0, holder_id |-> "B", expires_at |-> now + LockTtl]}
    /\ containers = <<ContainerRow(0, 0, "writing", 0, 0)>>
    /\ store = [k \in Keys |-> NoObject]
    /\ source = [f \in Files |-> SourceRow(f, "pending", "none", NoTime)]
    /\ pc = [p \in Packers |-> IF p = "B" THEN "ensure" ELSE "claim"]
    /\ writers = [p \in Packers |-> [s \in PackerShards |->
                     IF p = "A"
                     THEN [day |-> 0, container_id |-> 1, file_count |-> 0,
                           files |-> {}, closed |-> FALSE, last_checkpoint |-> 0]
                     ELSE NoWriter]]
    /\ hb = [p \in Packers |-> [s \in PackerShards |->
                (IF p = "A" THEN 0 ELSE now) + HeartbeatInterval(LockTtl)]]
    /\ ptoday = [p \in Packers |-> 0]
    /\ batch = [p \in Packers |-> {}]
    /\ attempt = [p \in Packers |-> 1]
    /\ lost = [p \in Packers |-> [s \in PackerShards |-> FALSE]]
    /\ strayWrite = {}
    /\ lostWrite = {}
    /\ finalized = {}
    /\ putOk = {}
    /\ uploadFailed = {}
    /\ heldAtStop = [p \in Packers |-> {}]
    /\ ClientInit
    /\ ClaimIdle
    /\ SweepIdle
    /\ LaterIdle

\* time.time() / datetime.now() move on, up to MaxLate
LateTick ==
    /\ now < MaxLate
    /\ now' = now + 1
    /\ UNCHANGED <<laterVars, claimVars, sweepVars, today, dbVars, clientVars, packerVars, packerHist>>

TakeoverNext ==
    \/ \E p \in Packers, s \in PackerShards : ProcessShard(p, s)
    \/ \E p \in Packers, s \in PackerShards : EnsureWriter(p, s)
    \/ \E p \in Packers, s \in PackerShards : Upload(p, s)
    \/ \E p \in Packers, s \in PackerShards : FinalizeRecord(p, s)
    \/ \E p \in Packers, s \in PackerShards : CreateWriter(p, s)
    \/ \E p \in Packers, s \in PackerShards : ClaimFiles(p, s)
    \/ \E p \in Packers, s \in PackerShards : AddFiles(p, s)
    \/ \E p \in Packers, s \in PackerShards : MaybeCheckpoint(p, s)
    \/ \E p \in Packers, s \in PackerShards : Heartbeat(p, s)
    \/ \E p \in Packers : Shutdown(p)
    \/ LateTick
    \/ NextDay

SpecTakeover == TakeoverInit /\ [][TakeoverNext]_vars

(* C27: an uploaded container is never overwritten: no two containers      *)
(* whose upload succeeded have the same destination key.                    *)
C27_UploadedNeverOverwritten ==
    \A c1, c2 \in putOk : containers[c1].s3_key = containers[c2].s3_key => c1 = c2

----------------------------------------------------------------------------
(* HeartbeatManager beside the lock table: a packer acquires a shard with  *)
(* the configured lock_ttl_seconds, which starts the heartbeat task of the *)
(* shard; the task sleeps max(1, ttl // 2) seconds and renews, for ever.   *)
(* Every renew is issued at the moment it is due: the clock does not move  *)
(* past a due renew. beat.failed is history: the tasks a renew of which    *)
(* returned False.                                                          *)

\* the values of lock_ttl_seconds that are tried: 1 second and more
BeatTtls == 1 .. MaxTtl + 1

BeatInit ==
    /\ CoreIdle
    /\ IdleBut({"beat"})
    /\ \E ttl \in BeatTtls : beat = [pc |-> "run", ttl |-> ttl, failed |-> {}]

\* _process_shard: try_acquire_shard_lock, then the heartbeat is started if none runs
BeatAcquire(p, s) ==
    /\ beat.pc = "run"
    /\ locks' = TryAcquireRows(locks, s, p, now, beat.ttl)
    /\ hb' = IF TryAcquireOk(locks, s, p, now) /\ hb[p][s] = NoHeartbeat
             THEN [hb EXCEPT ![p][s] = now + HeartbeatInterval(beat.ttl)]
             ELSE hb
    /\ UNCHANGED <<beatRest, beat, now, today, containers, store, source, clientVars, pc, writers,
                   ptoday, batch, attempt, packerHist, claimVars, sweepVars>>

\* HeartbeatManager._run: the sleep is over, renew_shard_lock, sleep again
BeatRenew(p, s) ==
    /\ beat.pc = "run"
    /\ hb[p][s] # NoHeartbeat
    /\ now = hb[p][s]
    /\ locks' = RenewRows(locks, s, p, now, beat.ttl)
    /\ beat' = [beat EXCEPT !.failed = IF RenewOk(locks, s, p, now) THEN @ ELSE @ \cup {<<p, s>>}]
    /\ hb' = [hb EXCEPT ![p][s] = now + HeartbeatInterval(beat.ttl)]
    /\ UNCHANGED <<beatRest, now, today, containers, store, source, clientVars, pc, writers,
                   ptoday, batch, attempt, packerHist, claimVars, sweepVars>>

\* a second passes, once every renew that is due has been issued
BeatTick ==
    /\ beat.pc = "run"
    /\ now < MaxTime
    /\ \A p \in Packers, s \in PackerShards : hb[p][s] = NoHeartbeat \/ hb[p][s] > now
    /\ now' = now + 1
    /\ UNCHANGED <<laterVars, claimVars, sweepVars, today, dbVars, clientVars, packerVars, packerHist>>

BeatNext ==
    \/ \E p \in Packers, s \in PackerShards : BeatAcquire(p, s)
    \/ \E p \in Packers, s \in PackerShards : BeatRenew(p, s)
    \/ BeatTick

SpecBeat == BeatInit /\ [][BeatNext]_vars

(* C28: a heartbeating holder keeps its lease: for every configured ttl,   *)
(* no renew of a running heartbeat task has failed and the holder of every *)
(* running task holds the effective lease of its shard at every moment.    *)
C28_HeartbeatKeepsLease ==
    beat.pc = "run" =>
        /\ beat.failed = {}
        /\ \A p \in Packers, s \in PackerShards :
               hb[p][s] # NoHeartbeat => HoldsLease(locks, s, p, now)

----------------------------------------------------------------------------
(* Day rollover: one packer beside the stale-claim sweep, which returns a   *)
(* claimed row to pending, so that files are claimed on later days too     *)

RolloverNext ==
    \/ \E s \in PackerShards : ProcessShard("A", s)
    \/ \E s \in PackerShards : EnsureWriter("A", s)
    \/ \E s \in PackerShards : Upload("A", s)
    \/ \E s \in PackerShards : FinalizeRecord("A", s)
    \/ \E s \in PackerShards : CreateWriter("A", s)
    \/ \E s \in PackerShards : ClaimFiles("A", s)
    \/ \E s \in PackerShards : AddFiles("A", s)
    \/ \E s \in PackerShards : MaybeCheckpoint("A", s)
    \/ \E s \in PackerShards : Heartbeat("A", s)
    \/ LiveRecoverStaleClaims
    \/ Tick
    \/ NextDay

SpecRollover == Init /\ [][RolloverNext]_vars

\* where a writer is and is not, by the position of its packer in a pass
WriterInOrder ==
    \A p \in Packers, s \in PackerShards :
        LET w == writers[p][s] IN
        /\ pc[p] = "create" => w = NoWriter
        /\ pc[p] \in {"upload", "record"} => (w # NoWriter /\ w.closed /\ w.day # ptoday[p])
        /\ pc[p] \in {"claim", "add", "checkpoint"} =>
               (w # NoWriter /\ ~w.closed /\ w.day = ptoday[p])

\* what one step may do to the writer of a shard
RolloverStep ==
    \A p \in Packers, s \in PackerShards :
        LET w == writers[p][s]
            v == writers'[p][s] IN
        \* a writer is never replaced by another in one step, nor moved to another day
        /\ (w # NoWriter /\ v # NoWriter) =>
               (v.container_id = w.container_id /\ v.day = w.day)
        \* while the packer lives, a writer is cleared only closed, uploaded and recorded
        /\ (w # NoWriter /\ v = NoWriter /\ pc'[p] \notin {"crashed", "stopped"}) =>
               /\ w.closed
               /\ w.container_id \in putOk
               /\ store[DestKey(s, w.day)].present
               /\ containers'[w.container_id].status = "uploaded"
               /\ containers'[w.container_id].file_count = w.file_count
               /\ pc'[p] = "create"
        \* a writer is opened only where there is none, and for the day the pass read
        /\ (w = NoWriter /\ v # NoWriter) =>
               (pc[p] = "create" /\ v.day = ptoday[p] /\ v.files = {})
        \* files are appended only to an open writer of that day
        /\ (v # NoWriter /\ v.files # w.files) =>
               (w # NoWriter /\ ~w.closed /\ w.day = ptoday[p])

(* C29: day rollover ordering: a writer whose day differs from today is    *)
(* closed, uploaded, recorded and cleared before the writer of the new day *)
(* is created, and files are appended only to the writer of the pass's     *)
(* day, which exists only once the previous one has been finalised.        *)
C29_DayRolloverOrdering == [](WriterInOrder) /\ [][RolloverStep]_vars

\* a packer holds a day-1 writer with a file appended to it, and a day-0 container
\* has been closed, uploaded and recorded before
C29_Witness ==
    \E p \in Packers, s \in PackerShards :
        /\ writers[p][s].day = 1
        /\ writers[p][s].files # {}
        /\ \E x \in finalized :
               /\ containers[x.cid].day = 0
               /\ containers[x.cid].status = "uploaded"
               /\ x.cid \in putOk

----------------------------------------------------------------------------
(* cleanup_partial_containers with an object store that can fail: each     *)
(* call to the store either answers or raises. _s3_exists and              *)
(* _validate_container catch every exception and answer False.             *)

\* what the store does during the sweep's visit of one row
Faults == {"none", "head", "read"}

\* _s3_exists: head_object succeeds; any exception counts as a missing object
S3ExistsUnder(st, k, fault) == st[k].present /\ fault # "head"

\* _validate_container: head_object, the size, then the footer read by S3DesReader;
\* any exception counts as an invalid container
ValidateContainerUnder(st, k, fault) ==
    IF st[k].present /\ st[k].valid /\ fault # "read"
    THEN [valid |-> TRUE, file_count |-> st[k].file_count]
    ELSE [valid |-> FALSE, file_count |-> NoCount]

\* cleanup_partial_containers: the loop body for one container
PartialContainerUnder(row, st, t, fault) ==
    IF ~S3ExistsUnder(st, row.s3_key, fault)
    THEN [row |-> [row EXCEPT !.status = "failed", !.finalized_at = t],
          store |-> st, actions |-> 1]
    ELSE LET v == ValidateContainerUnder(st, row.s3_key, fault) IN
         IF ~v.valid
         THEN [row |-> [row EXCEPT !.status = "failed", !.finalized_at = t],
               store |-> DeleteS3Object(st, row.s3_key), actions |-> 1]
         ELSE [row |-> [row EXCEPT !.status = "uploaded", !.finalized_at = t,
                                   !.file_count = IF v.file_count # NoCount
                                                  THEN v.file_count ELSE @],
               store |-> st, actions |-> 1]

RECURSIVE CleanupUnder(_, _, _, _, _, _)
CleanupUnder(ctbl, st, t, i, sel, faults) ==
    IF i > Len(ctbl) THEN [containers |-> ctbl, store |-> st, actions |-> 0]
    ELSE IF i \notin sel THEN CleanupUnder(ctbl, st, t, i + 1, sel, faults)
    ELSE LET r == PartialContainerUnder(ctbl[i], st, t, faults[i])
             rest == CleanupUnder([ctbl EXCEPT ![i] = r.row], r.store, t, i + 1, sel, faults)
         IN  [rest EXCEPT !.actions = @ + r.actions]

\* cleanup_partial_containers() awaited once, the store failing as `faults` says
FaultyCleanupPartialContainers ==
    \E faults \in [1 .. Len(containers) -> Faults] :
        /\ LET r == CleanupUnder(containers, store, now, 1, PartialIds(containers, now), faults) IN
            /\ containers' = r.containers
            /\ store' = r.store
            /\ lastSweep' = Returned("partial", r.actions,
                                      r.containers # containers \/ r.store # store)
        /\ UNCHANGED <<laterVars, now, today, locks, source, clientVars, packerVars, packerHist,
                       claimVars, sess, init0>>

PartialNext == FaultyCleanupPartialContainers

SpecPartial == SweepsInit /\ [][PartialNext]_vars

\* what the sweep is to do to each row, by the row and its object before the sweep
PartialSweepStep ==
    \A i \in 1 .. Len(containers) :
        LET row == containers[i]
            after == containers'[i]
            obj == store[row.s3_key] IN
        IF PartialSelected(row, now)
        THEN /\ ~obj.present => after.status = "failed"
             /\ (obj.present /\ ~obj.valid) =>
                    (after.status = "failed" /\ ~store'[row.s3_key].present)
             /\ (obj.present /\ obj.valid) =>
                    (after.status = "uploaded" /\ after.finalized_at = now)
        ELSE after = row

(* C30: the partial-container sweep: a writing row older than the grace    *)
(* period becomes failed if its object is absent, failed with the object   *)
(* deleted if the footer is invalid, uploaded with finalized_at stamped if *)
(* the footer is valid; every other row is left unchanged.                  *)
C30_PartialSweep == [][PartialSweepStep]_vars

----------------------------------------------------------------------------
(* recover_stale_claims on any source table: rows in every status, claimed *)
(* by nobody or by a packer, at any time or with claimed_at NULL (NoTime)  *)

SourceStatuses == {"pending", "claimed", "packed", "failed"}

StaleSources ==
    [Files -> {SourceRow(1, st, by, at) : st \in SourceStatuses, by \in {"none", "A"},
                                          at \in {NoTime} \cup (0 .. MaxTime)}]

StaleInit ==
    /\ now = 0
    /\ today = 0
    /\ locks = {}
    /\ containers = << >>
    /\ store = [k \in Keys |-> NoObject]
    /\ \E src \in StaleSources :
           source = [f \in Files |-> [src[f] EXCEPT !.id = f, !.shard = FileShard(f)]]
    /\ ClientInit
    /\ PackerInit
    /\ ClaimIdle
    /\ SweepIdle
    /\ LaterIdle

StaleNext ==
    \/ RunRecoverStaleClaims
    \/ Tick

SpecStale == StaleInit /\ [][StaleNext]_vars

\* the rows the sweep is to reset, by the table before the sweep
ToReset ==
    {f \in Files : /\ source[f].status = "claimed"
                   /\ (source[f].claimed_at = NoTime
                       \/ source[f].claimed_at < now - ClaimTimeoutSeconds)}

StaleSweepStep ==
    now' = now =>
        /\ \A f \in ToReset :
               source'[f] = [source[f] EXCEPT !.status = "pending", !.claimed_by = "none",
                                              !.claimed_at = NoTime]
        /\ \A f \in Files \ ToReset : source'[f] = source[f]
        /\ lastSweep'.name = "stale"
        /\ lastSweep'.actions = Cardinality(ToReset)

(* C31: the stale-claim sweep resets to pending, with claimed_by and       *)
(* claimed_at cleared, exactly the claimed rows whose claimed_at is NULL   *)
(* or older than now minus the claim timeout, leaves every other row       *)
(* unchanged, and returns the number of rows it reset.                      *)
C31_StaleClaimSweep == [][StaleSweepStep]_vars

\* a sweep has reset a claimed row (the count returned is at least 1)
C31_Witness ==
    /\ lastSweep.name = "stale"
    /\ lastSweep.actions >= 1
    /\ lastSweep.changed
    /\ \E f \in Files : source[f].status = "pending" /\ source[f].claimed_at = NoTime

----------------------------------------------------------------------------
(* release_expired_locks beside the lock clients: the sweep reads its      *)
(* clock, then its DELETE runs, while holders acquire and renew            *)

\* release_expired_locks: now = datetime.now(), then DELETE ... WHERE expires_at < now
SweepExpiredLocks ==
    \E t \in ClockReadings :
        /\ locks' = locks \ ExpiredLockRows(locks, t)
        /\ lastCall' = [op |-> "sweep", holder |-> "none", shard |-> 0,
                        ok |-> ExpiredLockRows(locks, t) # {}, pre |-> "none"]
        /\ UNCHANGED <<laterVars, claimVars, sweepVars, now, today, grant, containers, store,
                       source, packerVars, packerHist>>

LockSweepNext ==
    \/ \E h \in Holders, s \in Shards, ttl \in Ttls : TryAcquire(h, s, ttl)
    \/ \E h \in Holders, s \in Shards, ttl \in Ttls : Renew(h, s, ttl)
    \/ SweepExpiredLocks
    \/ Tick

SpecLockSweep == LockInit /\ [][LockSweepNext]_vars

ExpiredSweepStep ==
    (lastCall'.op = "sweep" /\ now' = now) =>
        \* the rows deleted are exactly those that expired before the sweep read its clock
        /\ \E t \in ClockReadings : locks' = {r \in locks : ~(r.expires_at < t)}
        \* no row deleted is effective, nor at its last moment
        /\ \A r \in locks \ locks' : r.expires_at < now
        /\ \A r \in locks : Effective(r, now) => r \in locks'
        /\ locks' \subseteq locks

(* C32: the expired-lock sweep deletes exactly the lock rows with          *)
(* expires_at < now (now as the sweep read it) and, interleaved with       *)
(* try_acquire and renew, never deletes a row whose lease is effective.    *)
C32_ExpiredLockSweep == [][ExpiredSweepStep]_vars

\* the sweep has just deleted an expired row and left an effective row of another shard
C32_Witness ==
    /\ lastCall.op = "sweep" /\ lastCall.ok
    /\ \E s \in Shards : Conflicting(locks, s) = {} /\ \E h \in Holders : grant[h][s] > 0
    /\ \E r \in locks : Effective(r, now)

----------------------------------------------------------------------------
(* release_shard_lock among holders that acquire, lose and take over leases *)

ReleaseNext ==
    \/ \E h \in Holders, s \in Shards, ttl \in Ttls : TryAcquire(h, s, ttl)
    \/ \E h \in Holders, s \in Shards : Release(h, s)
    \/ Tick

SpecRelease == LockInit /\ [][ReleaseNext]_vars

ReleaseStep ==
    (lastCall'.op = "release" /\ now' = now) =>
        LET h == lastCall'.holder
            s == lastCall'.shard IN
        \* the shard's row goes if and only if the caller holds it
        /\ \A r \in locks : (r.shard_id = s /\ r.holder_id = h) => r \notin locks'
        \* a row of the shard held by another holder, and every row of another shard, stays
        /\ \A r \in locks : (r.shard_id # s \/ r.holder_id # h) => r \in locks'
        /\ locks' \subseteq locks

(* C33: release(shard, holder) deletes the shard's lock row only if the    *)
(* row is held by that holder; a release by a holder that no longer owns   *)
(* the shard leaves the current owner's row as it is.                       *)
C33_ReleaseScoped == [][ReleaseStep]_vars

\* a holder whose lease was taken over has just released: the new owner's row is there
C33_Witness ==
    /\ lastCall.op = "release" /\ lastCall.pre = "other_live"
    /\ \E r \in locks : /\ r.shard_id = lastCall.shard
                        /\ r.holder_id # lastCall.holder
                        /\ Effective(r, now)
                        /\ grant[r.holder_id][r.shard_id] = r.expires_at
----------------------------------------------------------------------------
(* One packer that keeps running on one shard. _process_shard: try to      *)
(* acquire the lease, then get_pending_files -> claim_pending_files with   *)
(* limit = batch_size. The source table holds rows of both shards; no      *)
(* packer works on the other shard. run_forever repeats the pass for ever, *)
(* hence weak fairness on each step of the pass.                           *)

StarveAcquire == TryAcquire("A", 0, LockTtl)

StarveSelect ==
    /\ HoldsLease(locks, 0, "A", now)
    /\ ClaimSelect(1, "A", 0, BatchSize)

StarveUpdate == ClaimUpdate(1)

StarveNext ==
    \/ StarveAcquire
    \/ StarveSelect
    \/ StarveUpdate
    \/ Tick

SpecStarve ==
    /\ ClaimInit
    /\ [][StarveNext]_vars
    /\ WF_vars(StarveAcquire)
    /\ WF_vars(StarveSelect)
    /\ WF_vars(StarveUpdate)

\* C34: while the shard's packer keeps running and holds the lease, every
\* pending source row of its shard is eventually claimed, however many
\* pending rows of other shards the table holds.
C34_NoStarvation ==
    \A f \in Rows :
        (source[f].shard = 0 /\ source[f].status = "pending")
            ~> (source[f].status = "claimed")

----------------------------------------------------------------------------
(* One packer process over its life: run_forever walks shard_ids and       *)
(* awaits _process_shard for each, pass after pass. A step is taken here   *)
(* as a whole: the lease is granted or not; _ensure_writer keeps the       *)
(* shard's writer or opens DesWriter(work_dir/<day>/shard_NN.des), which   *)
(* raises FileExistsError when the path exists; the claim returns files,   *)
(* nothing, or raises; add_file accepts or raises. _process_shard logs an  *)
(* exception and raises it again, and run_forever has no handler, so the   *)
(* exception ends the coroutine and with it the process. The day does not  *)
(* change. A restart is a new process on the same work directory.          *)

MaxPasses == 2
MaxRestarts == 2

\* self.shard_ids
ShardIds == <<0, 1>>

StepOutcomes == {"files", "empty", "claim_error", "add_rejected"}

NoStep == [shard |-> 0, acquired |-> FALSE, outcome |-> "none"]

NewProcess(disk, restarts) ==
    [state |-> "running", idx |-> 1, pass |-> 0, writers |-> {}, disk |-> disk,
     error |-> "none", restarts |-> restarts, last |-> NoStep]

\* the exception that leaves _process_shard, "none" if it returns
ProcessShardError(r, s, acquired, outcome) ==
    IF ~acquired THEN "none"
    ELSE IF s \notin r.writers /\ s \in r.disk THEN "file_exists"
    ELSE IF outcome = "claim_error" THEN "claim"
    ELSE IF outcome = "add_rejected" THEN "add_file"
    ELSE "none"

RunInit == CoreIdle /\ IdleBut({"run"}) /\ run = NewProcess({}, 0)

\* one iteration of `for shard_id in self.shard_ids: await self._process_shard(shard_id)`
RunProcessShard ==
    /\ run.state = "running"
    /\ run.pass < MaxPasses
    /\ \E acquired \in BOOLEAN, outcome \in StepOutcomes :
        LET s == ShardIds[run.idx]
            err == ProcessShardError(run, s, acquired, outcome)
            ensured == acquired /\ err # "file_exists"
            atEnd == run.idx = Len(ShardIds)
        IN  run' = [run EXCEPT
                !.writers = IF ensured THEN @ \cup {s} ELSE @,
                !.disk = IF ensured THEN @ \cup {s} ELSE @,
                !.error = err,
                !.state = IF err # "none" THEN "ended" ELSE "running",
                !.idx = IF err # "none" THEN @ ELSE IF atEnd THEN 1 ELSE @ + 1,
                !.pass = IF err = "none" /\ atEnd THEN @ + 1 ELSE @,
                !.last = [shard |-> s, acquired |-> acquired, outcome |-> outcome]]
    /\ UNCHANGED <<coreVars, runRest>>

\* the process is killed where it stands
RunKill ==
    /\ run.state = "running"
    /\ run' = [run EXCEPT !.state = "killed"]
    /\ UNCHANGED <<coreVars, runRest>>

\* a new MultiShardPacker on the same work directory, the same day
RunRestart ==
    /\ run.state \in {"ended", "killed"}
    /\ run.restarts < MaxRestarts
    /\ run' = NewProcess(run.disk, run.restarts + 1)
    /\ UNCHANGED <<coreVars, runRest>>

RunNext ==
    \/ RunProcessShard
    \/ RunKill
    \/ RunRestart

SpecRun == RunInit /\ [][RunNext]_vars

\* C35: an error raised while one shard is processed (a claim error, a
\* rejected add_file) does not stop the packer loop: the process is still
\* running after it and goes on with its other shards.
C35_FailureIsolation ==
    run.error \in {"claim", "add_file"} => run.state = "running"

\* C36: after a crash and a restart on the same day and work directory, a
\* per-shard step that gets the lease of a shard the crashed run had opened
\* (its local container file is still there) ensures a writer for it.
C36_RestartStep ==
    LET s == ShardIds[run.idx] IN
    (/\ run.state = "running"
     /\ run.restarts > 0
     /\ run'.restarts = run.restarts
     /\ run'.state # "killed"
     /\ run'.last.acquired
     /\ s \in run.disk)
        => s \in run'.writers

C36_RestartResumes == [][C36_RestartStep]_vars

----------------------------------------------------------------------------
(* From the packer to the retriever. The source row of a file has an       *)
(* s3_key; the file's name, the last part of the key, is a DES name that   *)
(* carries the day it was generated on. The packer claims the row under    *)
(* the shard of the key, appends the file under its name to the container  *)
(* of that shard and of the day of packing, and uploads the container to   *)
(* _dest_key. The retriever is given the name. Both sides have the same    *)
(* prefix and the same shard_bits.                                         *)

NotPacked == [done |-> FALSE, key |-> <<0, 0>>, names |-> {}]
NotFetched == [done |-> FALSE, key |-> <<0, 0>>, outcome |-> "none"]

FetchInit ==
    /\ CoreIdle
    /\ IdleBut({"sha", "sh"})
    /\ sha \in [HashInputs -> Digests]
    /\ \E bits \in ShardBits, key \in {k \in HashInputs : Basename(k) = <<"x">>}, d \in Days :
           sh = [pc |-> "retrieve", shard_bits |-> bits, s3_key |-> key, name |-> Basename(key),
                 name_day |-> d, packed |-> NotPacked, fetched |-> NotFetched]

\* FileHandler.get_container_key: "<day in the name>/shard_<shard of the name>.des"
GetContainerKey(name, name_day, bits) == <<name_day, consistent_hash(name, bits)>>

(* the packer's part: the row is claimed by the packer of                  *)
(* _compute_shard_id(row), the file is added as s3_key.split("/")[-1] to   *)
(* the writer of (shard, date.today()), the container is uploaded          *)
PackAndUpload ==
    /\ sh.pc = "retrieve"
    /\ ~sh.packed.done
    /\ today >= sh.name_day
    /\ sh' = [sh EXCEPT !.packed =
                 [done |-> TRUE,
                  key |-> DestKey(consistent_hash(sh.s3_key, sh.shard_bits), today),
                  names |-> {Basename(sh.s3_key)}]]
    /\ UNCHANGED <<coreVars, shardRest, sha>>

\* FileHandler.get_file(name): S3DesReader on the derived key, then get_file
FetchFile ==
    /\ sh.pc = "retrieve"
    /\ sh.packed.done
    /\ ~sh.fetched.done
    /\ LET key == GetContainerKey(sh.name, sh.name_day, sh.shard_bits) IN
        sh' = [sh EXCEPT !.fetched =
                  [done |-> TRUE, key |-> key,
                   outcome |-> IF key # sh.packed.key THEN "no_container"
                               ELSE IF sh.name \in sh.packed.names THEN "found"
                               ELSE "not_found"]]
    /\ UNCHANGED <<coreVars, shardRest, sha>>

FetchNext == PackAndUpload \/ FetchFile \/ NextDay

SpecFetch == FetchInit /\ [][FetchNext]_vars

\* C37: a file appended to a container that was uploaded is fetched through
\* the retriever by its name: the key derived from the name is the key the
\* container was uploaded to, and the name is in that container's index.
C37_PackedRetrievable ==
    sh.fetched.done => (sh.fetched.key = sh.packed.key /\ sh.fetched.outcome = "found")

----------------------------------------------------------------------------
(* C38: fallback selection. In every request routed, with an endpoint      *)
(* counted healthy when its flag is set or its last failure is more than   *)
(* the circuit breaker timeout ago: if the endpoint the hash byte selects  *)
(* is unhealthy and another endpoint is healthy, the request is sent to    *)
(* the first healthy endpoint other than the primary; and the endpoint a   *)
(* request is sent to first (the one get_target_retriever returned) is     *)
(* healthy.                                                                *)
C38_FallbackStep ==
    (rt.pc = "router" /\ rt'.clock = rt.clock /\ rt'.last.op = "route") =>
        LET HealthyNow(i) ==
                \/ rt.table[i].is_healthy
                \/ /\ rt.table[i].last_failure_time # NoTime
                   /\ rt.clock - rt.table[i].last_failure_time > CircuitBreakerTimeout
            primary == HashByte(rt'.last.name, rt'.last.hint) % NumEndpoints
            others == {i \in Endpoints \ {primary} : HealthyNow(i)}
            sent == rt'.last.sent
        IN  /\ (~HealthyNow(primary) /\ others # {})
                   => (sent # << >> /\ sent[1] \in others /\ \A j \in others : sent[1] <= j)
            /\ sent # << >> => HealthyNow(sent[1])

----------------------------------------------------------------------------
(* C39: checkpoint. In every per-shard step in which the lease was         *)
(* acquired and that runs to its end: if, as the step ends, the writer's   *)
(* file_count is divisible by checkpoint_every_files or                    *)
(* checkpoint_every_seconds have passed since the last checkpoint, then    *)
(* the catalog row carries the writer's file_count, in status writing.     *)
C39_CheckpointStep ==
    \A p \in Packers, s \in PackerShards :
        (/\ pc[p] \in {"claim", "checkpoint"}
         /\ pc'[p] = "idle"
         /\ writers[p][s] # NoWriter
         /\ CheckpointDue(writers[p][s], now))
            => LET w == writers[p][s] IN
               /\ containers'[w.container_id].file_count = w.file_count
               /\ containers'[w.container_id].status = "writing"

C39_Checkpoint == [][C39_CheckpointStep]_vars

----------------------------------------------------------------------------
(* async_retry: one call of a wrapped coroutine function. The wrapper      *)
(* starts with attempt = 1 and loops: it awaits the function; a return     *)
(* value is returned; an exception of a listed type (or of a subclass) is  *)
(* raised again when attempt >= max_attempts, otherwise the wrapper sleeps *)
(* backoff_base ** attempt, times a random factor in [0.5, 1.5] when       *)
(* jitter is set, and adds one to attempt; any other exception leaves the  *)
(* wrapper as it is. Waits are counted in half seconds; the random factor  *)
(* is one of 0.5, 1, 1.5.                                                  *)

RetryMaxAttempts == 3

\* max_attempts as configured: nothing keeps it positive
MaxAttemptsValues == -1 .. RetryMaxAttempts

BackoffBases == {1, 2}

\* what one invocation of the function does
Invocations == {"ok", "listed", "other"}

\* mutant: one attempt more before giving up
GiveUp_Late(a, max_attempts) == a > max_attempts

\* if attempt >= max_attempts: raise exc
GiveUp(a, max_attempts) == a >= max_attempts

\* wait = backoff_base ** attempt; if jitter: wait *= random.uniform(0.5, 1.5)
Waits(backoff_base, a, jitter) ==
    {(backoff_base ^ a) * f : f \in IF jitter THEN {1, 2, 3} ELSE {2}}

RetryInit ==
    /\ CoreIdle
    /\ IdleBut({"retry"})
    /\ \E m \in MaxAttemptsValues, b \in BackoffBases, j \in BOOLEAN :
           retry = [pc |-> "call", max_attempts |-> m, backoff_base |-> b, jitter |-> j,
                    attempt |-> 1, hist |-> << >>, sleeps |-> 0, slept |-> 0, wait |-> 0,
                    raised |-> 0]

\* return await func(*args, **kwargs), and the except clause up to the sleep
RetryInvoke(outcome) ==
    /\ retry.pc = "call"
    /\ LET k == Len(retry.hist) + 1 IN
        IF outcome = "ok"
        THEN retry' = [retry EXCEPT !.hist = Append(@, outcome), !.pc = "returned"]
        ELSE IF outcome = "other" \/ GiveUp(retry.attempt, retry.max_attempts)
        THEN retry' = [retry EXCEPT !.hist = Append(@, outcome), !.pc = "raised", !.raised = k]
        ELSE \E w \in Waits(retry.backoff_base, retry.attempt, retry.jitter) :
                 retry' = [retry EXCEPT !.hist = Append(@, outcome), !.pc = "sleep", !.wait = w]
    /\ UNCHANGED <<coreVars, retryRest>>

\* await asyncio.sleep(wait); attempt += 1
RetrySleep ==
    /\ retry.pc = "sleep"
    /\ retry' = [retry EXCEPT !.pc = "call", !.sleeps = @ + 1, !.slept = @ + retry.wait,
                              !.wait = 0, !.attempt = @ + 1]
    /\ UNCHANGED <<coreVars, retryRest>>

RetryNext ==
    \/ \E outcome \in Invocations : RetryInvoke(outcome)
    \/ RetrySleep

SpecRetry == RetryInit /\ [][RetryNext]_vars

Max(a, b) == IF a >= b THEN a ELSE b

\* C40: a wrapped function is invoked at most max(1, max_attempts) times
\* per call; every invocation but the first follows an invocation that
\* raised a listed exception; each sleep lies between two invocations; and
\* when the wrapper raises, it raises the exception of the last invocation,
\* with no sleep after it.
C40_RetryBounds ==
    LET calls == Len(retry.hist) IN
    /\ calls <= Max(1, retry.max_attempts)
    /\ \A k \in 1 .. calls - 1 : retry.hist[k] = "listed"
    /\ retry.pc = "sleep" => retry.hist[calls] = "listed"
    /\ retry.sleeps = (IF retry.pc = "call" THEN calls ELSE calls - 1)
    /\ retry.pc = "raised" => (retry.raised = calls /\ retry.hist[calls] # "ok")
    /\ retry.pc = "returned" => retry.hist[calls] = "ok"
    /\ (retry.pc = "raised" /\ retry.hist[calls] = "listed")
           => calls = Max(1, retry.max_attempts)

\* every attempt failed with a listed exception and the last one is raised
C40_Witness ==
    /\ retry.pc = "raised"
    /\ Len(retry.hist) = retry.max_attempts
    /\ Len(retry.hist) >= 2
    /\ retry.hist[Len(retry.hist)] = "listed"
    /\ retry.sleeps = Len(retry.hist) - 1

============================================================================
